---- MODULE Spec2Model ----
(***************************************************************************)
(* State-machine model of coindcx-trader:                                  *)
(*   AutoTrader.check_price_and_trade   (src/scripts/auto_trader.py)       *)
(*   Trader                             (src/core/trader.py)               *)
(*   AlertSystem                        (src/core/alerts.py)               *)
(*   PriceTracker                       (src/core/tracker.py)              *)
(* together with the exchange seen through CoinDCXAPI (src/api/coindcx.py) *)
(* and the webhook seen through DiscordWebhook (src/api/discord.py).       *)
(* The trading engine, the buy sizing, the alert system, the two ways of   *)
(* driving the alert system, and the tracker running alone each have their *)
(* own specification over the same initial state (Spec, AmountSpec,        *)
(* SizingSpec, AlertSpec, ModeSpec, HistorySpec).  So have the retries of  *)
(* the exchange client (RequestSpec), the methods of Trader called         *)
(* directly (TraderSpec), get_current_price (PriceSpec), the tracking      *)
(* thread with its callbacks, its stop request and its readers             *)
(* (CallbackSpec, StopSpec, SnapshotSpec), and the trading-loop threads    *)
(* with start, stop and signal (LoopSpec, FairLoopSpec).  NotifiedSpec is  *)
(* the engine with a notifier that may raise other than a request error,   *)
(* BothSpec runs the engine and run_strategy side by side, MonitorSpec     *)
(* calls start_monitoring and stop_monitoring in any order, and FairSpec   *)
(* is the engine under a fair trading loop.                                *)
(*                                                                         *)
(* Units.  Prices are in hundredths of the fiat unit (0.65 is 65), fiat    *)
(* balances are whole fiat units, amounts spent are in hundredths, and a   *)
(* quantity is a pair [whole, frac] with frac counted in units of 10^-8.   *)
(* The "total" and "timestamp" fields of an order record are never read    *)
(* by the engine and are left out of the record.  The notifications        *)
(* (DiscordWebhook) change no state of the engine: _send_payload catches   *)
(* the request errors and returns a boolean that no caller reads.  In the  *)
(* alert system and the tracker prices are in thousandths (0.715 is 715).  *)
(***************************************************************************)
EXTENDS Integers, Sequences, FiniteSets, TLC

VARIABLES
    in_position,        \* AutoTrader.in_position
    current_order_id,   \* AutoTrader.current_order_id  (None when no order is pending)
    buy_order_price,    \* AutoTrader.buy_order_price
    buy_order_quantity, \* AutoTrader.buy_order_quantity (total_amount / current_price, kept as the pair)
    active_orders,      \* Trader.active_orders : order id -> order record
    exchange_orders,    \* the orders the exchange has accepted, in order of acceptance
    last_filled_type,   \* side of the order most recently reported filled by a status poll
    filled_types,       \* sides of the orders reported filled, in the order of the reports
    last,               \* what the most recent call of check_price_and_trade did
    sizing,             \* the last buy order sized: balance, price, spend and quantity submitted
    thresholds,         \* AlertSystem.thresholds
    triggered_alerts,   \* AlertSystem.triggered_alerts
    alert_running,      \* AlertSystem._running
    monitor,            \* the monitor_loop thread: "none", "running" or "ended"
    tracker_price,      \* PriceTracker.current_price of the AlertSystem's tracker
    since,              \* per alert id: "never" triggered; "clean" or "again" (after a first or a later trigger); "band" once a re-arm price was seen since
    parked,             \* per alert id: "removed" while triggered, then "readded"; "no" otherwise
    delivery_of,        \* per alert id: outcome of its last notification, "none", "ok" or "failed"
    example_run,        \* progress of the run 0.70, 0.72, 0.715, 0.72 on the configured thresholds
    alert_last,         \* what the most recent operation on the AlertSystem did
    tracker,            \* a PriceTracker run by start_tracking: current_price, price_history, callbacks
    clock,              \* number of start_tracking cycles completed, the time stamp of the next sample
    appended,           \* every sample start_tracking has appended, in order
    cb_alerts,          \* an AlertSystem registered on tracker: triggered_alerts, notifications sent
    loop_alerts,        \* an AlertSystem with its own monitor loop fed the same fetches
    request,            \* the last call of CoinDCXAPI._make_request: method, outcome of each attempt, result
    trader_last,        \* the last direct call of a Trader method: its name, its order id, the ids it polled
    price_call,         \* the last direct call of get_current_price: its fetch and what it returned
    last_fetched,       \* the price of the last fetch that succeeded, 0 when none did
    tracking,           \* the thread running start_tracking: where it is, the _running flag, what stop_tracking saw
    callback_log,       \* the callback calls of the last cycle of start_tracking
    snapshot,           \* the last value returned by get_price_history
    running,            \* AutoTrader._running
    stop_event,         \* AutoTrader._stop_event is set
    trading_thread,     \* AutoTrader._trading_thread: the rank of the thread in threads, None before the first start
    threads,            \* the trading-loop threads ever started, each with the place it has reached
    main_thread,        \* the thread that calls start_trading and stop_trading and runs the signal handler
    strategy,           \* run_strategy of buy_sell_strategy.py: its in_position, its current_order_id, the place calls of its last cycle
    monitoring          \* an AlertSystem under start_monitoring/stop_monitoring: its _running, the tracker's callbacks and cached price, its monitor loops, what its last cycle sent

trade_vars == <<in_position, current_order_id, buy_order_price, buy_order_quantity,
                active_orders, exchange_orders, last_filled_type, filled_types, last>>

alert_vars == <<thresholds, triggered_alerts, alert_running, monitor, tracker_price,
                since, parked, delivery_of, example_run, alert_last>>

tracker_vars == <<tracker, clock, appended, cb_alerts, loop_alerts>>

request_vars == <<request>>

trader_api_vars == <<trader_last>>

price_vars == <<price_call, last_fetched>>

tracking_vars == <<tracking, callback_log, snapshot>>

loop_vars == <<running, stop_event, trading_thread, threads, main_thread>>

strategy_vars == <<strategy>>

monitor_vars == <<monitoring>>

vars == <<trade_vars, sizing, alert_vars, tracker_vars, request_vars, trader_api_vars, price_vars, tracking_vars, loop_vars, strategy_vars, monitor_vars>>

---------------------------------------------------------------------------
(* Program constants *)

None == 0           \* Python None for an order id / a price; every real id is >= 1
BUY_PRICE == 65     \* 0.65
SELL_PRICE == 70    \* 0.70
FEE_PERCENT == 95   \* available_fiat * 0.95
MAX_TRADE == 1000   \* min(..., 1000)
MIN_ORDER == 10     \* total_amount > 10

(* Bound of the model: the exchange accepts at most MaxOrders orders; after
   that every place_order request fails. *)
MaxOrders == 3

(* Inputs *)
Prices == {0, 64, 65, 68, 70, 71}           \* 0 is what get_current_price returns before any ticker was fetched
Balances == {[fiat |-> 5, crypto |-> 0], [fiat |-> 2000, crypto |-> 3]}
Terminal == {"filled", "cancelled"}
StillOpen == {"open", "partially_filled"}
Statuses == StillOpen \cup Terminal \cup {"rejected"}
StatusResponses == Statuses \cup {"raise"}
BalanceResponses ==
    {[raised |-> FALSE, fiat |-> b.fiat, crypto |-> b.crypto] : b \in Balances}
        \cup {[raised |-> TRUE, fiat |-> 0, crypto |-> 0]}
OrderResponses == {"id", "noid", "raise"}   \* response carrying an id, response without an id, exception

NoQuantity == [whole |-> 0, frac |-> 0]
NoBalance == [raised |-> FALSE, fiat |-> 0, crypto |-> 0]

Min(a, b) == IF a <= b THEN a ELSE b

---------------------------------------------------------------------------
(* Trader *)

(* The prices p/100, 0 < p <= 100, whose binary double is greater than the
   decimal p/100: Decimal(price) is the exact value of the double. *)
FloatAbove ==
    {1, 2, 4, 5, 7, 8, 10, 11, 13, 14, 16, 17, 19, 20, 22, 23, 26, 27, 28, 32,
     33, 34, 38, 39, 40, 44, 45, 46, 51, 52, 53, 54, 55, 56, 63, 64, 65, 66,
     67, 68, 76, 77, 78, 79, 80, 81, 88, 89, 90, 91, 92, 93}

(* Decimal(total_amount) / Decimal(price), quantized to 0.00000001 with
   ROUND_DOWN.  total_amount and price are both in hundredths; the amounts
   of the model (4.75 and the integer 1000) are exact doubles.  The error of
   the double of the price is far below 10^-8, so it shows only when the
   exact quotient has no digit after the eighth: a divisor above price/100
   then gives a quotient just below it, which ROUND_DOWN truncates to the
   preceding multiple of 10^-8 (1000 / 0.64 gives 1562.49999999). *)
Quantize(total_amount, price) ==
    LET r0 == total_amount % price
        f1 == (r0 * 10000) \div price
        r1 == (r0 * 10000) % price
        f2 == (r1 * 10000) \div price
        r2 == (r1 * 10000) % price
        whole == total_amount \div price
        frac == f1 * 10000 + f2
    IN  IF r2 = 0 /\ price \in FloatAbove
        THEN IF frac = 0 THEN [whole |-> whole - 1, frac |-> 99999999]
                         ELSE [whole |-> whole, frac |-> frac - 1]
        ELSE [whole |-> whole, frac |-> frac]

(* The record stored under a fresh order id. *)
OrderRecord(type, price, quantity) ==
    [type |-> type, price |-> price, quantity |-> quantity, status |-> "placed"]

(* CoinDCXAPI.place_order as the exchange answers it: the order is accepted
   unless the request raises; the id of an accepted order is its rank. *)
api_place_order(orders, resp) ==
    IF resp = "raise" \/ Len(orders) >= MaxOrders
    THEN [raised |-> TRUE, accepted |-> FALSE, id |-> None]
    ELSE [raised |-> FALSE, accepted |-> TRUE,
          id |-> IF resp = "id" THEN Len(orders) + 1 ELSE None]

(* Storing the order in active_orders: only when the response has an id. *)
StoreOrder(orders, order_id, type, price, quantity) ==
    IF order_id # None
    THEN [k \in DOMAIN orders \cup {order_id} |->
            IF k = order_id THEN OrderRecord(type, price, quantity) ELSE orders[k]]
    ELSE orders

(* Variant of Trader.place_sell_order that keeps no record of the order. *)
Trader_place_sell_order_NoRecord(orders, xorders, price, quantity, resp) ==
    LET order == api_place_order(xorders, resp)
    IN  [called |-> TRUE, raised |-> order.raised, id |-> order.id,
         type |-> "sell", price |-> price, quantity |-> quantity,
         active_orders |-> orders]

(* Trader.place_sell_order *)
Trader_place_sell_order(orders, xorders, price, quantity, resp) ==
    LET order == api_place_order(xorders, resp)
    IN  [called |-> TRUE, raised |-> order.raised, id |-> order.id,
         type |-> "sell", price |-> price, quantity |-> quantity,
         active_orders |-> IF order.raised THEN orders
                           ELSE StoreOrder(orders, order.id, "sell", price, quantity)]

(* Variant of Trader.place_buy_order that stores the record before it calls
   the exchange, so that a failed call leaves the record behind. *)
Trader_place_buy_order_StoreFirst(orders, xorders, price, total_amount, resp) ==
    IF price = 0
    THEN [called |-> FALSE, raised |-> TRUE, id |-> None,
          type |-> "buy", price |-> price, quantity |-> NoQuantity,
          active_orders |-> orders]
    ELSE LET quantity == Quantize(total_amount, price)
             order == api_place_order(xorders, resp)
         IN  [called |-> TRUE, raised |-> order.raised, id |-> order.id,
              type |-> "buy", price |-> price, quantity |-> quantity,
              active_orders |-> StoreOrder(orders, Len(xorders) + 1, "buy", price, quantity)]

(* Variant of Trader.place_buy_order that sends the configured buy price as
   the limit price instead of the price it was given. *)
Trader_place_buy_order_AtBuyPrice(orders, xorders, price, total_amount, resp) ==
    IF price = 0
    THEN [called |-> FALSE, raised |-> TRUE, id |-> None,
          type |-> "buy", price |-> price, quantity |-> NoQuantity,
          active_orders |-> orders]
    ELSE LET quantity == Quantize(total_amount, price)
             order == api_place_order(xorders, resp)
         IN  [called |-> TRUE, raised |-> order.raised, id |-> order.id,
              type |-> "buy", price |-> BUY_PRICE, quantity |-> quantity,
              active_orders |-> IF order.raised THEN orders
                                ELSE StoreOrder(orders, order.id, "buy", BUY_PRICE, quantity)]

(* Variant of Trader.place_buy_order that submits the order at a zero
   price with a zero quantity instead of raising. *)
Trader_place_buy_order_ZeroPrice(orders, xorders, price, total_amount, resp) ==
    LET quantity == IF price = 0 THEN NoQuantity ELSE Quantize(total_amount, price)
        order == api_place_order(xorders, resp)
    IN  [called |-> TRUE, raised |-> order.raised, id |-> order.id,
         type |-> "buy", price |-> price, quantity |-> quantity,
         active_orders |-> IF order.raised THEN orders
                           ELSE StoreOrder(orders, order.id, "buy", price, quantity)]

(* Trader.place_buy_order with total_amount given: the division raises for
   a zero price before the exchange is called. *)
Trader_place_buy_order(orders, xorders, price, total_amount, resp) ==
    IF price = 0
    THEN [called |-> FALSE, raised |-> TRUE, id |-> None,
          type |-> "buy", price |-> price, quantity |-> NoQuantity,
          active_orders |-> orders]
    ELSE LET quantity == Quantize(total_amount, price)
             order == api_place_order(xorders, resp)
         IN  [called |-> TRUE, raised |-> order.raised, id |-> order.id,
              type |-> "buy", price |-> price, quantity |-> quantity,
              active_orders |-> IF order.raised THEN orders
                                ELSE StoreOrder(orders, order.id, "buy", price, quantity)]

(* Variant of Trader.get_order_status that returns the status without
   writing it into the record. *)
Trader_get_order_status_NoWrite(orders, order_id, resp) ==
    IF resp = "raise"
    THEN [raised |-> TRUE, status |-> "none", active_orders |-> orders]
    ELSE [raised |-> FALSE, status |-> resp, active_orders |-> orders]

(* Trader.get_order_status: the status of the response is written into the
   record of the order; an exception leaves the records alone. *)
Trader_get_order_status(orders, order_id, resp) ==
    IF resp = "raise"
    THEN [raised |-> TRUE, status |-> "none", active_orders |-> orders]
    ELSE [raised |-> FALSE, status |-> resp,
          active_orders |-> IF order_id \in DOMAIN orders
                            THEN [orders EXCEPT ![order_id].status = resp]
                            ELSE orders]

(* Trader.get_account_balance *)
Trader_get_account_balance(resp) == resp

---------------------------------------------------------------------------
(* AutoTrader.check_price_and_trade, first part: the status poll of the
   pending order (auto_trader.py lines 41-67). *)

(* Variant of OnFilled that always enters the position. *)
OnFilled_AlwaysTrue(ip) == TRUE

(* in_position after a "filled" status: a buy is assumed filled when the
   engine was not in position, a sell otherwise. *)
OnFilled(ip) == IF ~ip THEN TRUE ELSE FALSE

(* Variants of ClearsOrderId: every status clears the id; only "cancelled"
   does; only "filled" does. *)
ClearsOrderId_OnlyFilled(status) == status = "filled"
ClearsOrderId_Always(status) == TRUE
ClearsOrderId_OnlyCancelled(status) == status = "cancelled"

(* The statuses on which current_order_id is set to None. *)
ClearsOrderId(status) == status = "filled" \/ status = "cancelled"

(* Variant of TogglesPosition that treats a cancelled order as a filled one. *)
TogglesPosition_Terminal(status) == status = "filled" \/ status = "cancelled"

(* The status on which in_position changes. *)
TogglesPosition(status) == status = "filled"

(* The statuses on which the cycle returns right after the poll. *)
ReturnsEarly(status) == status \in {"open", "partially_filled"}

(* Variant of the poll that gives the order up when the status request
   raises. *)
StatusStep_ClearOnError(ip, oid, orders, resp) ==
    IF oid = None
    THEN [polled |-> FALSE, raised |-> FALSE, status |-> "none",
          in_position |-> ip, current_order_id |-> oid,
          active_orders |-> orders, returned |-> FALSE]
    ELSE LET r == Trader_get_order_status(orders, oid, resp)
         IN  IF r.raised
             THEN [polled |-> TRUE, raised |-> TRUE, status |-> "none",
                   in_position |-> ip, current_order_id |-> None,
                   active_orders |-> r.active_orders, returned |-> FALSE]
             ELSE [polled |-> TRUE, raised |-> FALSE, status |-> r.status,
                   in_position |-> IF TogglesPosition(r.status) THEN OnFilled(ip) ELSE ip,
                   current_order_id |-> IF ClearsOrderId(r.status) THEN None ELSE oid,
                   active_orders |-> r.active_orders,
                   returned |-> ReturnsEarly(r.status)]

StatusStep(ip, oid, orders, resp) ==
    IF oid = None
    THEN [polled |-> FALSE, raised |-> FALSE, status |-> "none",
          in_position |-> ip, current_order_id |-> oid,
          active_orders |-> orders, returned |-> FALSE]
    ELSE LET r == Trader_get_order_status(orders, oid, resp)
         IN  IF r.raised
             THEN [polled |-> TRUE, raised |-> TRUE, status |-> "none",
                   in_position |-> ip, current_order_id |-> oid,
                   active_orders |-> r.active_orders, returned |-> FALSE]
             ELSE [polled |-> TRUE, raised |-> FALSE, status |-> r.status,
                   in_position |-> IF TogglesPosition(r.status) THEN OnFilled(ip) ELSE ip,
                   current_order_id |-> IF ClearsOrderId(r.status) THEN None ELSE oid,
                   active_orders |-> r.active_orders,
                   returned |-> ReturnsEarly(r.status)]

---------------------------------------------------------------------------
(* AutoTrader.check_price_and_trade, second part: the placement of a new
   order (auto_trader.py lines 69-121). *)

(* available_fiat * 0.95, in hundredths *)
Times095(available_fiat) == available_fiat * FEE_PERCENT

(* min(spend, 1000), in hundredths *)
Capped(spend) == Min(spend, MAX_TRADE * 100)

(* min(available_fiat * 0.95, 1000), in hundredths *)
TotalAmount(available_fiat) == Capped(Times095(available_fiat))

EnoughToBuy_AtLeast(total_amount) == total_amount >= MIN_ORDER * 100

(* total_amount > 10 *)
EnoughToBuy(total_amount) == total_amount > MIN_ORDER * 100

(* Variant of the buy branch that does not look at in_position. *)
BuyBranch_AnyPosition(ip, oid) == oid = None

BuyBranch(ip, oid) == ~ip /\ oid = None
SellBranch(ip, oid) == ip /\ oid = None
BuySignal(current_price) == current_price <= BUY_PRICE
(* Variant of SellSignal that compares with the buy threshold. *)
SellSignal_BuyPrice(current_price) == current_price >= BUY_PRICE
SellSignal(current_price) == current_price >= SELL_PRICE

NoPlace(orders) ==
    [called |-> FALSE, raised |-> FALSE, id |-> None, type |-> "none",
     price |-> 0, quantity |-> NoQuantity, active_orders |-> orders]

(* The result of a step that did not reach a place_*_order call. *)
Idle(oid, orders, calls, balance) ==
    [balance_calls |-> calls, balance |-> balance, attempted |-> FALSE,
     place |-> NoPlace(orders), current_order_id |-> oid, total_amount |-> 0]

(* current_order_id = order.get("id") after a place_*_order call that
   returned; an exception skips the assignment. *)
Placed(oid, balance, p, total_amount) ==
    [balance_calls |-> 1, balance |-> balance, attempted |-> TRUE,
     place |-> p, current_order_id |-> IF p.raised THEN oid ELSE p.id,
     total_amount |-> total_amount]

(* The placement step, total_amount being the value that line 79 computes
   from the balance when the buy branch gets that far. *)
PlacementStepWith(ip, oid, orders, xorders, current_price, balance_resp, total_amount, order_resp) ==
    IF BuyBranch(ip, oid)
    THEN IF BuySignal(current_price)
         THEN LET balance == Trader_get_account_balance(balance_resp)
              IN  IF balance.raised
                  THEN Idle(oid, orders, 1, balance)
                  ELSE IF EnoughToBuy(total_amount)
                       THEN Placed(oid, balance,
                                Trader_place_buy_order(orders, xorders, current_price,
                                                       total_amount, order_resp),
                                total_amount)
                       ELSE [Idle(oid, orders, 1, balance)
                                EXCEPT !.total_amount = total_amount]
         ELSE Idle(oid, orders, 0, NoBalance)
    ELSE IF SellBranch(ip, oid)
    THEN IF SellSignal(current_price)
         THEN LET balance == Trader_get_account_balance(balance_resp)
              IN  IF balance.raised
                  THEN Idle(oid, orders, 1, balance)
                  ELSE IF balance.crypto > 0
                       THEN Placed(oid, balance,
                                Trader_place_sell_order(orders, xorders, current_price,
                                    [whole |-> balance.crypto, frac |-> 0], order_resp),
                                0)
                       ELSE Idle(oid, orders, 1, balance)
         ELSE Idle(oid, orders, 0, NoBalance)
    ELSE Idle(oid, orders, 0, NoBalance)

PlacementStep(ip, oid, orders, xorders, current_price, balance_resp, order_resp) ==
    PlacementStepWith(ip, oid, orders, xorders, current_price, balance_resp,
                      TotalAmount(balance_resp.fiat), order_resp)

---------------------------------------------------------------------------
(* The exchange's book of the orders it accepted, with the status a poll
   last reported for each. *)

Reported(xorders, oid, poll) ==
    IF poll.polled /\ ~poll.raised
    THEN [k \in DOMAIN xorders |->
            IF xorders[k].id = oid
            THEN [xorders[k] EXCEPT !.reported = poll.status]
            ELSE xorders[k]]
    ELSE xorders

(* Variant of Accepted for a cycle that submits its order a second time. *)
Accepted_Twice(xorders, ip, p) ==
    IF p.called /\ ~p.raised
    THEN xorders \o
         [i \in 1 .. 2 |-> [type |-> p.type, price |-> p.price, quantity |-> p.quantity,
                            id |-> p.id, reported |-> "none", in_position_before |-> ip]]
    ELSE xorders

Accepted(xorders, ip, p) ==
    IF p.called /\ ~p.raised
    THEN Append(xorders, [type |-> p.type, price |-> p.price, quantity |-> p.quantity,
                          id |-> p.id, reported |-> "none", in_position_before |-> ip])
    ELSE xorders

---------------------------------------------------------------------------
TradeInit ==
    /\ in_position = FALSE
    /\ current_order_id = None
    /\ buy_order_price = None
    /\ buy_order_quantity = [total_amount |-> 0, price |-> 0]
    /\ active_orders = <<>>
    /\ exchange_orders = <<>>
    /\ last_filled_type = "none"
    /\ filled_types = <<>>
    /\ last = [cycled |-> FALSE, price |-> 0,
               pre_in_position |-> FALSE, pre_order_id |-> None,
               polled |-> FALSE, poll_raised |-> FALSE, status |-> "none",
               returned |-> FALSE,
               mid_in_position |-> FALSE, mid_order_id |-> None,
               mid_active_orders |-> <<>>,
               balance_calls |-> 0, balance |-> NoBalance, total_amount |-> 0,
               attempted |-> FALSE, place_calls |-> <<>>,
               place_raised |-> FALSE, place_id |-> None]

(* One call of check_price_and_trade(current_price), with the answers the
   exchange gives to the calls the cycle makes; total_amount is the value of
   min(available_fiat * 0.95, 1000) for the balance answered, and poll is
   the outcome of the status poll of lines 41-67. *)
check_price_and_trade_after(poll, current_price, balance_resp, total_amount, order_resp) ==
    LET xpolled == Reported(exchange_orders, current_order_id, poll)
        step == IF poll.returned
                THEN Idle(poll.current_order_id, poll.active_orders, 0, NoBalance)
                ELSE PlacementStepWith(poll.in_position, poll.current_order_id,
                                       poll.active_orders, xpolled, current_price,
                                       balance_resp, total_amount, order_resp)
        p == step.place
        returnedOrder == step.attempted /\ ~p.raised
    IN  /\ in_position' = poll.in_position
        /\ current_order_id' = step.current_order_id
        /\ buy_order_price' =
              IF returnedOrder /\ p.type = "buy" THEN current_price ELSE buy_order_price
        /\ buy_order_quantity' =
              IF returnedOrder /\ p.type = "buy"
              THEN [total_amount |-> step.total_amount, price |-> current_price]
              ELSE buy_order_quantity
        /\ active_orders' = p.active_orders
        /\ exchange_orders' = Accepted(xpolled, poll.in_position, p)
        /\ last_filled_type' =
              IF poll.status = "filled" /\ current_order_id \in DOMAIN active_orders
              THEN active_orders[current_order_id].type
              ELSE last_filled_type
        /\ filled_types' =
              IF poll.status = "filled" /\ current_order_id \in DOMAIN active_orders
              THEN Append(filled_types, active_orders[current_order_id].type)
              ELSE filled_types
        /\ last' = [cycled |-> TRUE, price |-> current_price,
                    pre_in_position |-> in_position, pre_order_id |-> current_order_id,
                    polled |-> poll.polled, poll_raised |-> poll.raised,
                    status |-> poll.status, returned |-> poll.returned,
                    mid_in_position |-> poll.in_position,
                    mid_order_id |-> poll.current_order_id,
                    mid_active_orders |-> poll.active_orders,
                    balance_calls |-> step.balance_calls, balance |-> step.balance,
                    total_amount |-> step.total_amount,
                    attempted |-> step.attempted,
                    place_calls |-> IF p.called
                                    THEN <<[type |-> p.type, price |-> p.price,
                                            quantity |-> p.quantity]>>
                                    ELSE <<>>,
                    place_raised |-> step.attempted /\ p.raised,
                    place_id |-> p.id]

(* The cycle with the status poll of lines 41-67 as the code has it. *)
check_price_and_trade_with(current_price, status_resp, balance_resp, total_amount, order_resp) ==
    check_price_and_trade_after(StatusStep(in_position, current_order_id, active_orders, status_resp), current_price, balance_resp, total_amount, order_resp)

check_price_and_trade(current_price, status_resp, balance_resp, order_resp) ==
    check_price_and_trade_with(current_price, status_resp, balance_resp,
                               TotalAmount(balance_resp.fiat), order_resp)

(* The answers that reach the cycle: a call that is not made has no answer,
   so the answers are drawn only for the calls the cycle makes. *)
StatusAnswers == IF current_order_id = None THEN {"none"} ELSE StatusResponses

BalanceAnswers(poll, current_price) ==
    IF /\ ~poll.returned
       /\ \/ BuyBranch(poll.in_position, poll.current_order_id) /\ BuySignal(current_price)
          \/ SellBranch(poll.in_position, poll.current_order_id) /\ SellSignal(current_price)
    THEN BalanceResponses
    ELSE {NoBalance}

OrderAnswersWith(poll, current_price, balance_resp, total_amount) ==
    IF /\ BalanceAnswers(poll, current_price) = BalanceResponses
       /\ ~balance_resp.raised
       /\ \/ ~poll.in_position /\ EnoughToBuy(total_amount) /\ current_price # 0
          \/ poll.in_position /\ balance_resp.crypto > 0
    THEN OrderResponses
    ELSE {"none"}

OrderAnswers(poll, current_price, balance_resp) ==
    OrderAnswersWith(poll, current_price, balance_resp, TotalAmount(balance_resp.fiat))

Cycle ==
    \E current_price \in Prices, status_resp \in StatusAnswers :
      \E balance_resp \in BalanceAnswers(StatusStep(in_position, current_order_id,
                                                    active_orders, status_resp),
                                         current_price) :
        \E order_resp \in OrderAnswers(StatusStep(in_position, current_order_id,
                                                  active_orders, status_resp),
                                       current_price, balance_resp) :
          check_price_and_trade(current_price, status_resp, balance_resp, order_resp)

(* Balances given with their product available_fiat * 0.95 in hundredths
   (spend); fiat is the balance cut to whole units.  10.526315789473685 is
   the balance whose double product with 0.95 is exactly 10.0. *)
SpendBalances ==
    {[fiat |-> 5, crypto |-> 0, spend |-> 475],
     [fiat |-> 10, crypto |-> 0, spend |-> 1000],
     [fiat |-> 2000, crypto |-> 3, spend |-> 190000]}

SpendResponses ==
    {[raised |-> FALSE, fiat |-> b.fiat, crypto |-> b.crypto, spend |-> b.spend] :
        b \in SpendBalances}
        \cup {[raised |-> TRUE, fiat |-> 0, crypto |-> 0, spend |-> 0]}

BalanceOf(r) == [raised |-> r.raised, fiat |-> r.fiat, crypto |-> r.crypto]

(* One cycle of the engine where the exchange answers the balance request
   with one of SpendBalances. *)
AmountCycle ==
    \E current_price \in Prices, status_resp \in StatusAnswers :
      LET poll == StatusStep(in_position, current_order_id, active_orders, status_resp)
      IN  \E r \in IF BalanceAnswers(poll, current_price) = BalanceResponses
                    THEN SpendResponses
                    ELSE {[raised |-> FALSE, fiat |-> 0, crypto |-> 0, spend |-> 0]} :
            \E order_resp \in OrderAnswersWith(poll, current_price, BalanceOf(r),
                                               Capped(r.spend)) :
              check_price_and_trade_with(current_price, status_resp, BalanceOf(r),
                                         Capped(r.spend), order_resp)

---------------------------------------------------------------------------
(* Buy sizing: the buy branch of check_price_and_trade followed by
   Trader.place_buy_order, as a function of the balance and the price. *)

SizingFiat == {5, 20, 100, 1000, 1053, 2000}    \* balances whose product with 0.95 is an exact double
SizingPrices == 1 .. 100                        \* 0.01 .. 1.00

SizingInit ==
    sizing = [applied |-> FALSE, available_fiat |-> 0, price |-> 0,
              total_amount |-> 0, submitted |-> FALSE, quantity |-> NoQuantity]

SizeBuy ==
    \E available_fiat \in SizingFiat, price \in SizingPrices :
      LET total_amount == TotalAmount(available_fiat)
          NoOrders == [k \in {} |-> OrderRecord("buy", 0, NoQuantity)]
          p == Trader_place_buy_order(NoOrders, <<>>, price, total_amount, "id")
          submitted == EnoughToBuy(total_amount) /\ p.called
      IN  sizing' = [applied |-> TRUE, available_fiat |-> available_fiat,
                     price |-> price, total_amount |-> total_amount,
                     submitted |-> submitted,
                     quantity |-> IF submitted THEN p.quantity ELSE NoQuantity]

---------------------------------------------------------------------------
(* PriceTracker.get_current_price and AlertSystem (src/core/tracker.py,
   src/core/alerts.py).  Here prices and thresholds are in thousandths of
   the fiat unit (0.715 is 715).  The threshold mapping is a sequence of
   [type, value] entries with distinct types, in the insertion order of the
   Python dict.  The alert types of the model are "high" and "low". *)

PRICE_ALERT_THRESHOLDS ==
    <<[type |-> "low", value |-> 640], [type |-> "high", value |-> 710]>>
REARM_HIGH == 98    \* threshold * 0.98, in hundredths
REARM_LOW == 102    \* threshold * 1.02, in hundredths

AlertTypes == {"high", "low"}
AlertValues == [high |-> {710, 720}, low |-> {640}]     \* the values add_threshold is called with
AlertPrices == {630, 650, 700, 715, 720}
Deliveries == {"ok", "request_error"}                   \* outcome of the webhook request
Fetches == {[ok |-> TRUE, price |-> q] : q \in AlertPrices} \cup {[ok |-> FALSE, price |-> 0]}

(* Variant of get_current_price that drops the cached price when the fetch
   fails. *)
get_current_price_DropsCache(current_price, fetch) ==
    IF fetch.ok
    THEN [raised |-> FALSE, price |-> fetch.price, current_price |-> fetch.price]
    ELSE [raised |-> FALSE, price |-> current_price, current_price |-> None]

(* get_current_price: a successful fetch is cached and returned; a failed
   one returns the cached price, or 0 when there is none (None is 0). *)
get_current_price(current_price, fetch) ==
    IF fetch.ok
    THEN [raised |-> FALSE, price |-> fetch.price, current_price |-> fetch.price]
    ELSE [raised |-> FALSE, price |-> current_price, current_price |-> current_price]

(* alert_id = f"{alert_type}_{threshold}": one id per type and value *)
AlertId(type, value) == <<type, value>>

AllAlertIds == UNION {{AlertId(t, v) : v \in AlertValues[t]} : t \in AlertTypes}

TypesOf(thr) == {thr[i].type : i \in 1 .. Len(thr)}
Configured(thr) ==
    {AlertId(thr[i].type, thr[i].value) : i \in 1 .. Len(thr)}

(* add_threshold: thresholds[alert_type] = price keeps the place of a key
   already present and appends a new key; triggered_alerts is not touched. *)
AlertSystem_add_threshold(thr, triggered_set, alert_type, price) ==
    [thresholds |->
        IF alert_type \in TypesOf(thr)
        THEN [i \in 1 .. Len(thr) |->
                IF thr[i].type = alert_type
                THEN [type |-> alert_type, value |-> price] ELSE thr[i]]
        ELSE Append(thr, [type |-> alert_type, value |-> price]),
     triggered_alerts |-> triggered_set]

(* Variant of remove_threshold that also forgets that the alert was
   triggered. *)
AlertSystem_remove_threshold_Clears(thr, triggered_set, alert_type) ==
    [thresholds |-> SelectSeq(thr, LAMBDA t : t.type # alert_type),
     triggered_alerts |-> {a \in triggered_set : a[1] # alert_type}]

(* remove_threshold: del thresholds[alert_type] when the key is present;
   triggered_alerts is not touched. *)
AlertSystem_remove_threshold(thr, triggered_set, alert_type) ==
    [thresholds |-> SelectSeq(thr, LAMBDA t : t.type # alert_type),
     triggered_alerts |-> triggered_set]

(* The triggering conditions of lines 41 and 50. *)
Crossed(t, current_price) ==
    \/ t.type = "high" /\ current_price >= t.value
    \/ t.type = "low" /\ current_price <= t.value

(* Variant of the re-arm condition that re-arms as soon as the price is
   back on the other side of the threshold. *)
Rearms_AtThreshold(t, current_price) ==
    \/ t.type = "high" /\ current_price < t.value
    \/ t.type = "low" /\ current_price > t.value

(* The re-arm condition of lines 60-61: price < threshold * 0.98 for high,
   price > threshold * 1.02 for low.  No price of the model lies on a
   boundary, where the rounding of the double product would decide. *)
Rearms(t, current_price) ==
    \/ t.type = "high" /\ current_price * 100 < t.value * REARM_HIGH
    \/ t.type = "low" /\ current_price * 100 > t.value * REARM_LOW

(* check_alerts: the loop over the thresholds from entry i on. *)
RECURSIVE check_alerts_from(_, _, _, _, _)
check_alerts_from(thr, i, triggered_set, current_price, triggered) ==
    IF i > Len(thr)
    THEN [triggered |-> triggered, triggered_alerts |-> triggered_set]
    ELSE LET t == thr[i]
             alert_id == AlertId(t.type, t.value)
         IN  IF Crossed(t, current_price)
             THEN IF alert_id \notin triggered_set
                  THEN check_alerts_from(thr, i + 1, triggered_set \cup {alert_id},
                            current_price,
                            Append(triggered, [type |-> t.type, threshold |-> t.value,
                                               current_price |-> current_price]))
                  ELSE check_alerts_from(thr, i + 1, triggered_set,
                                         current_price, triggered)
             ELSE IF Rearms(t, current_price)
                  THEN check_alerts_from(thr, i + 1, triggered_set \ {alert_id},
                                         current_price, triggered)
                  ELSE check_alerts_from(thr, i + 1, triggered_set,
                                         current_price, triggered)

(* Variant of check_alerts that does not remember what it has triggered. *)
check_alerts_Forgetful(thr, triggered_set, current_price) ==
    LET r == check_alerts_from(thr, 1, {}, current_price, <<>>)
    IN  [triggered |-> r.triggered,
         triggered_alerts |-> (triggered_set \cup r.triggered_alerts)
                                \ (triggered_set \ check_alerts_from(thr, 1, triggered_set,
                                        current_price, <<>>).triggered_alerts)]

check_alerts(thr, triggered_set, current_price) ==
    check_alerts_from(thr, 1, triggered_set, current_price, <<>>)

(* Variant of _send_payload that lets the request error out. *)
DiscordWebhook_send_payload_Raises(delivery) ==
    [raised |-> delivery # "ok", result |-> delivery = "ok"]

(* DiscordWebhook._send_payload: True when the request went through, False
   when it raised a RequestException. *)
DiscordWebhook_send_payload(delivery) ==
    [raised |-> FALSE, result |-> delivery = "ok"]

(* price_callback: check_alerts, then one send_price_alert per alert
   returned, its result ignored; an exception of a send ends the call.
   Every webhook request of one call has the outcome delivery. *)
price_callback(thr, triggered_set, price, delivery) ==
    LET r == check_alerts(thr, triggered_set, price)
        send == DiscordWebhook_send_payload(delivery)
        raised == send.raised /\ r.triggered # <<>>
        attempts == IF raised THEN 1 ELSE Len(r.triggered)
    IN  [raised |-> raised,
         triggered_alerts |-> r.triggered_alerts,
         triggered |-> r.triggered,
         sent |-> [i \in 1 .. attempts |->
                    [type |-> r.triggered[i].type,
                     threshold |-> r.triggered[i].threshold,
                     current_price |-> r.triggered[i].current_price,
                     delivered |-> ~send.raised /\ send.result]]]

---------------------------------------------------------------------------
(* AlertSystem run by its own monitor loop (start_monitoring with
   use_existing_tracker false), with add_threshold and remove_threshold
   called from outside. *)

(* The re-arm band of an alert id, as the history variables record it. *)
InRearmBand(alert_id, price) ==
    \/ alert_id[1] = "high" /\ price * 100 < alert_id[2] * REARM_HIGH
    \/ alert_id[1] = "low" /\ price * 100 > alert_id[2] * REARM_LOW

EXAMPLE_PRICES == <<700, 720, 715, 720>>
EXAMPLE_ALERT == AlertId("high", 710)
ExampleOff == [pos |-> 0 - 1, triggers |-> 0]

IdsOf(alerts) == {AlertId(alerts[i].type, alerts[i].threshold) : i \in 1 .. Len(alerts)}

NoAlertState == [a \in AllAlertIds |-> "no"]

AlertInit ==
    /\ thresholds = PRICE_ALERT_THRESHOLDS
    /\ triggered_alerts = {}
    /\ alert_running = FALSE
    /\ monitor = "none"
    /\ tracker_price = None
    /\ since = [a \in AllAlertIds |-> "never"]
    /\ parked = NoAlertState
    /\ delivery_of = [a \in AllAlertIds |-> "none"]
    /\ example_run = [pos |-> 0, triggers |-> 0]
    /\ alert_last = [op |-> "none", alert_type |-> "none", value |-> 0,
                     fetched |-> FALSE, price |-> 0,
                     triggered |-> <<>>, sent |-> <<>>, raised |-> FALSE]

start_monitoring ==
    /\ IF alert_running
       THEN UNCHANGED <<alert_running, monitor>>
       ELSE alert_running' = TRUE /\ monitor' = "running"
    /\ alert_last' = [op |-> "start", alert_type |-> "none", value |-> 0,
                      fetched |-> FALSE, price |-> 0,
                      triggered |-> <<>>, sent |-> <<>>, raised |-> FALSE]
    /\ UNCHANGED <<thresholds, triggered_alerts, tracker_price, since, parked,
                   delivery_of, example_run>>

(* One iteration of monitor_loop: get_current_price, then price_callback;
   an exception of price_callback ends the loop. *)
monitor_loop(fetch, delivery) ==
    /\ alert_running /\ monitor = "running"
    /\ LET g == get_current_price(tracker_price, fetch)
           r == price_callback(thresholds, triggered_alerts, g.price, delivery)
           fired == IdsOf(r.triggered)
       IN  /\ tracker_price' = g.current_price
           /\ triggered_alerts' = r.triggered_alerts
           /\ monitor' = IF r.raised THEN "ended" ELSE monitor
           /\ since' = [a \in AllAlertIds |->
                          IF a \in fired
                          THEN IF since[a] = "never" THEN "clean" ELSE "again"
                          ELSE IF InRearmBand(a, g.price) /\ since[a] # "never"
                               THEN "band" ELSE since[a]]
           /\ parked' = [a \in AllAlertIds |->
                           IF InRearmBand(a, g.price) THEN "no" ELSE parked[a]]
           /\ delivery_of' = [a \in AllAlertIds |->
                                IF \E i \in 1 .. Len(r.sent) :
                                      /\ a = AlertId(r.sent[i].type, r.sent[i].threshold)
                                      /\ r.sent[i].delivered
                                THEN "ok"
                                ELSE IF a \in fired THEN "failed" ELSE delivery_of[a]]
           /\ example_run' =
                 IF /\ example_run.pos >= 0 /\ example_run.pos < Len(EXAMPLE_PRICES)
                    /\ g.price = EXAMPLE_PRICES[example_run.pos + 1]
                 THEN [pos |-> example_run.pos + 1,
                       triggers |-> example_run.triggers
                                      + IF EXAMPLE_ALERT \in fired THEN 1 ELSE 0]
                 ELSE ExampleOff
           /\ alert_last' = [op |-> "check", alert_type |-> "none", value |-> 0,
                             fetched |-> fetch.ok, price |-> g.price,
                             triggered |-> r.triggered, sent |-> r.sent,
                             raised |-> r.raised]
    /\ UNCHANGED <<thresholds, alert_running>>

(* What add_threshold and remove_threshold record of themselves: the ids
   that leave the mapping while triggered are parked, a parked id that
   comes back is re-added. *)
Configuring(op, alert_type, price, r) ==
    /\ thresholds' = r.thresholds
    /\ triggered_alerts' = r.triggered_alerts
    /\ parked' = [a \in AllAlertIds |->
                    IF a \in (Configured(thresholds) \ Configured(r.thresholds))
                              \cap triggered_alerts
                    THEN "removed"
                    ELSE IF a \in Configured(r.thresholds) \ Configured(thresholds)
                            /\ parked[a] = "removed"
                         THEN "readded" ELSE parked[a]]
    /\ example_run' = ExampleOff
    /\ alert_last' = [op |-> op, alert_type |-> alert_type, value |-> price,
                      fetched |-> FALSE, price |-> 0,
                      triggered |-> <<>>, sent |-> <<>>, raised |-> FALSE]
    /\ UNCHANGED <<alert_running, monitor, tracker_price, since, delivery_of>>

add_threshold(alert_type, price) ==
    Configuring("add", alert_type, price,
                AlertSystem_add_threshold(thresholds, triggered_alerts, alert_type, price))

remove_threshold(alert_type) ==
    Configuring("remove", alert_type, 0,
                AlertSystem_remove_threshold(thresholds, triggered_alerts, alert_type))

(* The webhook is requested only when the price triggers an alert. *)
DeliveriesAt(fetch) ==
    IF check_alerts(thresholds, triggered_alerts,
                    get_current_price(tracker_price, fetch).price).triggered = <<>>
    THEN {"ok"} ELSE Deliveries

MonitorIteration ==
    \E fetch \in Fetches : \E delivery \in DeliveriesAt(fetch) : monitor_loop(fetch, delivery)
AddThreshold == \E t \in AlertTypes : \E v \in AlertValues[t] : add_threshold(t, v)
RemoveThreshold == \E t \in AlertTypes : remove_threshold(t)

---------------------------------------------------------------------------
(* PriceTracker.start_tracking, one cycle of its loop at a time, with an
   AlertSystem registered as a callback (start_monitoring with
   use_existing_tracker true), next to an AlertSystem that runs its own
   monitor loop on the same fetches. *)

MAX_HISTORY == 1000     \* len(self.price_history) > 1000

(* Bounds of the model: cycles observed by the two alert systems, and
   samples appended by the tracker running alone. *)
MaxCycles == 4
MaxAppends == 1002

(* Variant of the append that evicts the newest sample. *)
HistoryAppend_PopLast(price_history, sample) ==
    LET h == Append(price_history, sample)
    IN  IF Len(h) > MAX_HISTORY THEN SubSeq(h, 1, Len(h) - 1) ELSE h

(* price_history.append(sample); if len(price_history) > 1000: pop(0) *)
HistoryAppend(price_history, sample) ==
    LET h == Append(price_history, sample)
    IN  IF Len(h) > MAX_HISTORY THEN Tail(h) ELSE h

(* The notifications of a price_callback call, as the webhook is asked to
   send them. *)
Notifications(sent) ==
    [i \in 1 .. Len(sent) |->
        [type |-> sent[i].type, threshold |-> sent[i].threshold,
         current_price |-> sent[i].current_price]]

(* An AlertSystem after price_callback(price); an exception leaves the
   marks made by check_alerts and the notifications already sent. *)
AfterCallback(alerts, price, delivery) ==
    LET r == price_callback(PRICE_ALERT_THRESHOLDS, alerts.triggered_alerts, price, delivery)
    IN  [raised |-> r.raised,
         alerts |-> [alerts EXCEPT !.triggered_alerts = r.triggered_alerts,
                                   !.notified = alerts.notified \o Notifications(r.sent)]]

(* for callback in self.callbacks: try: callback(price) except: log.  The
   callbacks of the model are all the price_callback of one AlertSystem. *)
RECURSIVE run_callbacks(_, _, _, _, _)
run_callbacks(callbacks, i, alerts, price, delivery) ==
    IF i > Len(callbacks)
    THEN alerts
    ELSE run_callbacks(callbacks, i + 1, AfterCallback(alerts, price, delivery).alerts,
                       price, delivery)

(* Variant of the cycle that hands the callbacks the price cached before
   the fetch. *)
start_tracking_cycle_StalePrice(tr, now, fetch, alerts, delivery) ==
    LET g == get_current_price(tr.current_price, fetch)
    IN  [tracker |-> [tr EXCEPT !.current_price = g.current_price,
                                !.price_history =
                                    HistoryAppend(tr.price_history,
                                                  [timestamp |-> now, price |-> g.price])],
         sample |-> [timestamp |-> now, price |-> g.price],
         alerts |-> run_callbacks(tr.callbacks, 1, alerts, tr.current_price, delivery)]

(* One cycle of the loop of start_tracking (lines 42-55). *)
start_tracking_cycle(tr, now, fetch, alerts, delivery) ==
    LET g == get_current_price(tr.current_price, fetch)
    IN  [tracker |-> [tr EXCEPT !.current_price = g.current_price,
                                !.price_history =
                                    HistoryAppend(tr.price_history,
                                                  [timestamp |-> now, price |-> g.price])],
         sample |-> [timestamp |-> now, price |-> g.price],
         alerts |-> run_callbacks(tr.callbacks, 1, alerts, g.price, delivery)]

(* One iteration of monitor_loop on an AlertSystem with its own tracker
   (lines 97-100 of alerts.py); the loop ends when price_callback raises. *)
monitor_loop_iteration(alerts, fetch, delivery) ==
    IF alerts.monitor # "running"
    THEN alerts
    ELSE LET g == get_current_price(alerts.current_price, fetch)
             r == AfterCallback(alerts, g.price, delivery)
         IN  [r.alerts EXCEPT !.current_price = g.current_price,
                              !.monitor = IF r.raised THEN "ended" ELSE "running"]

TrackerInit ==
    /\ tracker = [current_price |-> None, price_history |-> <<>>, callbacks |-> <<>>]
    /\ clock = 0
    /\ appended = <<>>
    /\ cb_alerts = [running |-> FALSE, triggered_alerts |-> {}, notified |-> <<>>]
    /\ loop_alerts = [running |-> FALSE, monitor |-> "none", current_price |-> None,
                      triggered_alerts |-> {}, notified |-> <<>>]

(* start_monitoring(use_existing_tracker=True) on the one system and
   start_monitoring() on the other. *)
StartBoth ==
    /\ ~cb_alerts.running /\ ~loop_alerts.running
    /\ tracker' = [tracker EXCEPT !.callbacks = Append(tracker.callbacks, "price_callback")]
    /\ cb_alerts' = [cb_alerts EXCEPT !.running = TRUE]
    /\ loop_alerts' = [loop_alerts EXCEPT !.running = TRUE, !.monitor = "running"]
    /\ UNCHANGED <<clock, appended>>

(* The tracker and the monitor loop observe the same fetch; each webhook
   request has its own outcome. *)
Observe ==
    /\ cb_alerts.running /\ loop_alerts.running
    /\ clock < MaxCycles
    /\ \E fetch \in Fetches, cb_delivery \in Deliveries, loop_delivery \in Deliveries :
         LET c == start_tracking_cycle(tracker, clock, fetch, cb_alerts, cb_delivery)
         IN  /\ tracker' = c.tracker
             /\ cb_alerts' = c.alerts
             /\ appended' = Append(appended, c.sample)
             /\ loop_alerts' = monitor_loop_iteration(loop_alerts, fetch, loop_delivery)
    /\ clock' = clock + 1

(* The fetch of the n-th cycle of a tracker that runs alone: the first
   cycles may fail or succeed, the later ones follow a fixed course. *)
FeedAt(n) ==
    IF n < 2
    THEN {[ok |-> TRUE, price |-> 700], [ok |-> FALSE, price |-> 0]}
    ELSE {[ok |-> n % 7 # 3, price |-> IF n % 7 # 3 THEN 600 + 10 * (n % 13) ELSE 0]}

(* One cycle of start_tracking with no callback registered. *)
TrackAlone ==
    /\ tracker.callbacks = <<>>
    /\ clock < MaxAppends
    /\ \E fetch \in FeedAt(clock) :
         LET c == start_tracking_cycle(tracker, clock, fetch, cb_alerts, "ok")
         IN  /\ tracker' = c.tracker
             /\ appended' = Append(appended, c.sample)
    /\ clock' = clock + 1
    /\ UNCHANGED <<cb_alerts, loop_alerts>>

---------------------------------------------------------------------------
(* CoinDCXAPI._make_request (src/api/coindcx.py).  An attempt is one HTTP
   request; its outcome is a response that passes raise_for_status ("ok"),
   a network error, a 5xx response or a 401 response.  The last three all
   surface as requests.exceptions.RequestException. *)

MAX_RETRIES == 3

Methods == {"get", "post", "put"}               \* "put" stands for the methods the client does not support
HttpOutcomes == {"ok", "network", "server_error", "auth"}
Transient == {"network", "server_error"}
AttemptOutcomes == [1 .. MAX_RETRIES -> HttpOutcomes]

(* Variant of _make_request that raises on the first failed attempt. *)
CoinDCXAPI_make_request_NoRetry(method, outcomes) ==
    IF method \notin {"get", "post"}
    THEN [result |-> "value_error", error |-> "none", attempts |-> 0, sleeps |-> <<>>]
    ELSE IF outcomes[1] = "ok"
         THEN [result |-> "ok", error |-> "none", attempts |-> 1, sleeps |-> <<>>]
         ELSE [result |-> "raise", error |-> outcomes[1], attempts |-> 1, sleeps |-> <<>>]

(* The loop for attempt in range(MAX_RETRIES), from the given attempt
   (counted from 0) on; sleeps lists the attempts after which the client
   slept RETRY_DELAY. *)
RECURSIVE make_request_from(_, _, _, _)
make_request_from(method, outcomes, attempt, sleeps) ==
    IF attempt >= MAX_RETRIES
    THEN [result |-> "none", error |-> "none", attempts |-> attempt, sleeps |-> sleeps]
    ELSE IF method \notin {"get", "post"}
         THEN [result |-> "value_error", error |-> "none",
               attempts |-> attempt, sleeps |-> sleeps]
         ELSE IF outcomes[attempt + 1] = "ok"
              THEN [result |-> "ok", error |-> "none",
                    attempts |-> attempt + 1, sleeps |-> sleeps]
              ELSE IF attempt < MAX_RETRIES - 1
                   THEN make_request_from(method, outcomes, attempt + 1,
                                          Append(sleeps, attempt + 1))
                   ELSE [result |-> "raise", error |-> outcomes[attempt + 1],
                         attempts |-> attempt + 1, sleeps |-> sleeps]

(* CoinDCXAPI._make_request, lines 49-66 *)
CoinDCXAPI_make_request(method, outcomes) == make_request_from(method, outcomes, 0, <<>>)

RequestInit ==
    request = [called |-> FALSE, method |-> "none", outcomes |-> <<>>,
               result |-> "none", error |-> "none", attempts |-> 0, sleeps |-> <<>>]

MakeRequest ==
    \E method \in Methods, outcomes \in AttemptOutcomes :
      LET r == CoinDCXAPI_make_request(method, outcomes)
      IN  request' = [called |-> TRUE, method |-> method, outcomes |-> outcomes,
                      result |-> r.result, error |-> r.error,
                      attempts |-> r.attempts, sleeps |-> r.sleeps]

---------------------------------------------------------------------------
(* The methods of Trader called directly (src/core/trader.py), each a whole
   call.  active_orders and exchange_orders are the ones of the trading
   engine; the engine's own fields are left alone. *)

MaxRecords == 2                                  \* orders the exchange accepts from direct calls
OrderIds == 1 .. MaxRecords + 1                  \* ids a caller may pass, stored or not
PollAnswers == {"open", "filled", "raise"}       \* answers of the exchange to a status request
CancelAnswers == {"ok", "raise"}                 \* answers of the exchange to a cancel request
DIRECT_BUY == [price |-> BUY_PRICE, total_amount |-> 100000]
DIRECT_SELL == [price |-> SELL_PRICE, quantity |-> [whole |-> 10, frac |-> 0]]

engine_vars == <<in_position, current_order_id, buy_order_price, buy_order_quantity, last_filled_type, filled_types, last>>

TraderInit ==
    trader_last = [op |-> "none", order_id |-> None, polled |-> {}]

(* Trader.cancel_order: after the exchange accepted the cancel request the
   record of the order, if there is one, is marked cancelled. *)
Trader_cancel_order(orders, order_id, resp) ==
    IF resp = "raise"
    THEN [raised |-> TRUE, active_orders |-> orders]
    ELSE [raised |-> FALSE,
          active_orders |-> IF order_id \in DOMAIN orders
                            THEN [orders EXCEPT ![order_id].status = "cancelled"]
                            ELSE orders]

(* Trader.update_active_orders: every record that is neither filled nor
   cancelled is polled; a poll that raises is logged and skipped. *)
Trader_update_active_orders(orders, resps) ==
    LET due == {k \in DOMAIN orders : orders[k].status \notin {"filled", "cancelled"}}
    IN  [polled |-> {k \in due : resps[k] # "raise"},
         active_orders |-> [k \in DOMAIN orders |->
              IF k \in due
              THEN Trader_get_order_status(orders, k, resps[k]).active_orders[k]
              ELSE orders[k]]]

PlaceBuyOrder ==
    \E resp \in OrderResponses :
      LET p == Trader_place_buy_order(active_orders, exchange_orders, DIRECT_BUY.price, DIRECT_BUY.total_amount, resp)
      IN  /\ Len(exchange_orders) < MaxRecords
          /\ active_orders' = p.active_orders
          /\ exchange_orders' = Accepted(exchange_orders, in_position, p)
          /\ trader_last' = [op |-> "place_buy_order", order_id |-> p.id, polled |-> {}]
          /\ UNCHANGED engine_vars

PlaceSellOrder ==
    \E resp \in OrderResponses :
      LET p == Trader_place_sell_order(active_orders, exchange_orders, DIRECT_SELL.price, DIRECT_SELL.quantity, resp)
      IN  /\ Len(exchange_orders) < MaxRecords
          /\ active_orders' = p.active_orders
          /\ exchange_orders' = Accepted(exchange_orders, in_position, p)
          /\ trader_last' = [op |-> "place_sell_order", order_id |-> p.id, polled |-> {}]
          /\ UNCHANGED engine_vars

CancelOrder ==
    \E order_id \in OrderIds, resp \in CancelAnswers :
      LET c == Trader_cancel_order(active_orders, order_id, resp)
      IN  /\ active_orders' = c.active_orders
          /\ trader_last' = [op |-> "cancel_order", order_id |-> order_id, polled |-> {}]
          /\ UNCHANGED <<exchange_orders, engine_vars>>

GetOrderStatus ==
    \E order_id \in OrderIds, resp \in PollAnswers :
      LET g == Trader_get_order_status(active_orders, order_id, resp)
      IN  /\ active_orders' = g.active_orders
          /\ trader_last' = [op |-> "get_order_status", order_id |-> order_id,
                             polled |-> IF g.raised THEN {} ELSE {order_id}]
          /\ UNCHANGED <<exchange_orders, engine_vars>>

UpdateActiveOrders ==
    \E resps \in [DOMAIN active_orders -> PollAnswers] :
      LET u == Trader_update_active_orders(active_orders, resps)
      IN  /\ active_orders' = u.active_orders
          /\ trader_last' = [op |-> "update_active_orders", order_id |-> None,
                             polled |-> u.polled]
          /\ UNCHANGED <<exchange_orders, engine_vars>>

---------------------------------------------------------------------------
(* PriceTracker.get_current_price called again and again on one tracker
   (src/core/tracker.py); the cached price is tracker_price. *)

alert_rest == <<thresholds, triggered_alerts, alert_running, monitor, since, parked, delivery_of, example_run, alert_last>>

(* The answers of the ticker: those of Fetches, and a ticker without
   last_price, which float(ticker.get("last_price", 0)) reads as 0.0. *)
TickerAnswers == Fetches \cup {[ok |-> TRUE, price |-> 0]}

PriceInit ==
    /\ price_call = [called |-> FALSE, tick |-> 0, ok |-> FALSE, raised |-> FALSE, price |-> 0,
                     before |-> [ok |-> FALSE, price |-> 0]]
    /\ last_fetched = 0

GetCurrentPrice ==
    \E fetch \in TickerAnswers :
      LET g == get_current_price(tracker_price, fetch)
      IN  /\ tracker_price' = g.current_price
          /\ price_call' = [called |-> TRUE, tick |-> 1 - price_call.tick, ok |-> fetch.ok,
                            raised |-> g.raised, price |-> g.price,
                            before |-> [ok |-> price_call.ok, price |-> price_call.price]]
          /\ last_fetched' = IF fetch.ok THEN fetch.price ELSE last_fetched
          /\ UNCHANGED alert_rest

---------------------------------------------------------------------------
(* PriceTracker.start_tracking run by its own thread, statement by
   statement (src/core/tracker.py, started at src/main.py:58-60), with
   register_callback, stop_tracking and get_price_history called from other
   threads.  The thread is at "none" before Thread.start(), at "entry"
   before line 36, at "test" before the test of line 41, at "body" before
   line 42, at "sleep" in line 57 and at "done" after the finally clause. *)

MaxTrackCycles == 3                              \* cycles of one tracking thread
MaxCallbacks == 2                                \* registrations on one tracker
CallbackFunctions == {"price_callback", "on_price"}
TrackFetches == {[ok |-> TRUE, price |-> 700], [ok |-> TRUE, price |-> 715], [ok |-> FALSE, price |-> 0]}
HistoryLimits == {None, 1, 2}                    \* the limit argument; None is also limit=0, which is falsy

TrackingInit ==
    /\ tracking = [pc |-> "none", running |-> FALSE, stop_called |-> FALSE, started_after_stop |-> 0]
    /\ callback_log = [calls |-> <<>>, earlier_raise |-> FALSE]
    /\ snapshot = [taken |-> FALSE, limit |-> None, alias |-> FALSE, value |-> <<>>, at_call |-> <<>>]

(* Variant of the callback loop with the try around the whole loop: the
   first callback that raises ends the calls of the cycle. *)
RECURSIVE call_callbacks_OneTry(_, _, _, _, _)
call_callbacks_OneTry(callbacks, i, price, raisers, calls) ==
    IF i > Len(callbacks)
    THEN calls
    ELSE LET call == [callback |-> callbacks[i], price |-> price, raised |-> i \in raisers]
         IN  IF i \in raisers
             THEN Append(calls, call)
             ELSE call_callbacks_OneTry(callbacks, i + 1, price, raisers, Append(calls, call))

(* for callback in self.callbacks: try: callback(price) except Exception:
   log (lines 51-55), from the i-th registration on; raisers are the
   registrations whose call raises in this cycle. *)
RECURSIVE call_callbacks(_, _, _, _, _)
call_callbacks(callbacks, i, price, raisers, calls) ==
    IF i > Len(callbacks)
    THEN calls
    ELSE call_callbacks(callbacks, i + 1, price, raisers,
                        Append(calls, [callback |-> callbacks[i], price |-> price,
                                       raised |-> i \in raisers]))

(* get_price_history: the last limit samples as a new list when limit is
   truthy and below the length, the list object itself otherwise. *)
PriceTracker_get_price_history(price_history, limit) ==
    IF limit # None /\ limit < Len(price_history)
    THEN [alias |-> FALSE,
          value |-> SubSeq(price_history, Len(price_history) - limit + 1, Len(price_history))]
    ELSE [alias |-> TRUE, value |-> <<>>]

(* What the holder of a returned value reads in it now. *)
Returned(snap, price_history) == IF snap.alias THEN price_history ELSE snap.value

(* tracker_thread.start() *)
StartTrackingThread ==
    /\ tracking.pc = "none"
    /\ tracking' = [tracking EXCEPT !.pc = "entry"]
    /\ UNCHANGED <<tracker, clock, appended, cb_alerts, loop_alerts, callback_log, snapshot>>

(* self._running = True (line 36) *)
EnterTracking ==
    /\ tracking.pc = "entry"
    /\ tracking' = [tracking EXCEPT !.pc = "test", !.running = TRUE]
    /\ UNCHANGED <<tracker, clock, appended, cb_alerts, loop_alerts, callback_log, snapshot>>

(* while self._running (line 41); when the flag is down the finally clause
   runs and the thread ends. *)
TestRunning ==
    /\ tracking.pc = "test"
    /\ tracking.running => clock < MaxTrackCycles
    /\ tracking' = IF tracking.running
                   THEN [tracking EXCEPT !.pc = "body",
                            !.started_after_stop = @ + IF tracking.stop_called THEN 1 ELSE 0]
                   ELSE [tracking EXCEPT !.pc = "done", !.running = FALSE]
    /\ UNCHANGED <<tracker, clock, appended, cb_alerts, loop_alerts, callback_log, snapshot>>

(* The body of the loop up to the sleep (lines 42-55). *)
TrackingCycle ==
    /\ tracking.pc = "body"
    /\ \E fetch \in TrackFetches, raisers \in SUBSET (1 .. Len(tracker.callbacks)) :
         LET g == get_current_price(tracker.current_price, fetch)
             sample == [timestamp |-> clock, price |-> g.price]
         IN  /\ tracker' = [tracker EXCEPT !.current_price = g.current_price,
                               !.price_history = HistoryAppend(tracker.price_history, sample)]
             /\ appended' = Append(appended, sample)
             /\ callback_log' =
                   [calls |-> call_callbacks(tracker.callbacks, 1, g.price, raisers, <<>>),
                    earlier_raise |-> \/ callback_log.earlier_raise
                                      \/ \E i \in 1 .. Len(callback_log.calls) :
                                            callback_log.calls[i].raised]
    /\ clock' = clock + 1
    /\ tracking' = [tracking EXCEPT !.pc = "sleep"]
    /\ UNCHANGED <<cb_alerts, loop_alerts, snapshot>>

(* time.sleep(tracking_interval) (line 57) *)
TrackingSleep ==
    /\ tracking.pc = "sleep"
    /\ tracking' = [tracking EXCEPT !.pc = "test"]
    /\ UNCHANGED <<tracker, clock, appended, cb_alerts, loop_alerts, callback_log, snapshot>>

(* register_callback(fn) *)
RegisterCallback ==
    /\ Len(tracker.callbacks) < MaxCallbacks
    /\ \E fn \in CallbackFunctions :
         tracker' = [tracker EXCEPT !.callbacks = Append(tracker.callbacks, fn)]
    /\ UNCHANGED <<clock, appended, cb_alerts, loop_alerts, tracking, callback_log, snapshot>>

(* stop_tracking(), called once the thread has been started *)
StopTracking ==
    /\ tracking.pc # "none"
    /\ tracking' = [tracking EXCEPT !.running = FALSE, !.stop_called = TRUE]
    /\ UNCHANGED <<tracker, clock, appended, cb_alerts, loop_alerts, callback_log, snapshot>>

(* get_price_history(limit) *)
GetPriceHistory ==
    /\ \E limit \in HistoryLimits :
         LET h == PriceTracker_get_price_history(tracker.price_history, limit)
         IN  snapshot' = [taken |-> TRUE, limit |-> limit, alias |-> h.alias, value |-> h.value,
                          at_call |-> Returned(h, tracker.price_history)]
    /\ UNCHANGED <<tracker, clock, appended, cb_alerts, loop_alerts, tracking, callback_log>>

TrackingLoop ==
    \/ StartTrackingThread
    \/ EnterTracking
    \/ TestRunning
    \/ TrackingCycle
    \/ TrackingSleep

---------------------------------------------------------------------------
(* AutoTrader.start_trading, stop_trading and _signal_handler
   (src/scripts/auto_trader.py:123-174) with the trading-loop threads they
   start.  A thread is at "test" before the test of line 136, at "cycle"
   inside lines 137-138 before the exchange accepted an order, at
   "accepted" when place_order has been answered and current_order_id is
   not yet assigned (lines 82-87, 108-113), at "wait" in line 139 and at
   "done" after the finally clause.  The threads are daemons: when the
   process exits they stop where they are. *)

MaxThreads == 2                                  \* trading-loop threads started on one AutoTrader

Alive(th) == th.pc # "done" /\ ~th.killed
InCycle(th) == th.pc \in {"cycle", "accepted"} /\ ~th.killed

LoopInit ==
    /\ running = FALSE
    /\ stop_event = FALSE
    /\ trading_thread = None
    /\ threads = <<>>
    /\ main_thread = "idle"

(* Variant of the loop test that looks at _running instead of the event. *)
stop_requested_ByRunning(event_set, is_running) == ~is_running

(* while not self._stop_event.is_set() *)
stop_requested(event_set, is_running) == event_set

(* start_trading, lines 125-154 *)
StartTrading ==
    /\ main_thread = "idle"
    /\ IF running
       THEN UNCHANGED <<running, stop_event, trading_thread, threads>>
       ELSE /\ Len(threads) < MaxThreads
            /\ running' = TRUE
            /\ stop_event' = FALSE
            /\ threads' = Append(threads, [pc |-> "test", killed |-> FALSE])
            /\ trading_thread' = Len(threads) + 1
    /\ UNCHANGED main_thread

(* stop_trading up to the join, lines 158-166 *)
StopTrading ==
    /\ main_thread = "idle"
    /\ IF ~running
       THEN UNCHANGED <<stop_event, main_thread>>
       ELSE stop_event' = TRUE /\ main_thread' = "joining"
    /\ UNCHANGED <<running, trading_thread, threads>>

(* join(timeout=5) returns, because the thread has ended or because five
   seconds have passed while it was inside a cycle (a call of the exchange
   has no timeout and retries after RETRY_DELAY = 5 s), and stop_trading
   finishes (lines 166-168) *)
JoinReturns ==
    /\ main_thread \in {"joining", "handler_joining"}
    /\ ~Alive(threads[trading_thread]) \/ InCycle(threads[trading_thread])
    /\ running' = FALSE
    /\ main_thread' = IF main_thread = "joining" THEN "idle" ELSE "exiting"
    /\ UNCHANGED <<stop_event, trading_thread, threads>>

(* SIGINT or SIGTERM once start_trading has registered the handler:
   _signal_handler calls stop_trading (lines 172-173) *)
SignalArrives ==
    /\ main_thread = "idle" /\ trading_thread # None
    /\ IF ~running
       THEN main_thread' = "exiting" /\ UNCHANGED stop_event
       ELSE stop_event' = TRUE /\ main_thread' = "handler_joining"
    /\ UNCHANGED <<running, trading_thread, threads>>

(* sys.exit(0) in the handler (line 174): the process ends and its daemon
   threads with it *)
ProcessExits ==
    /\ main_thread = "exiting"
    /\ main_thread' = "exited"
    /\ threads' = [t \in DOMAIN threads |->
                      IF Alive(threads[t]) THEN [threads[t] EXCEPT !.killed = TRUE]
                      ELSE threads[t]]
    /\ UNCHANGED <<running, stop_event, trading_thread>>

(* The test of the loop; when it ends the loop the finally clause lowers
   _running (lines 136, 143-145). *)
LoopTest(t) ==
    /\ threads[t].pc = "test"
    /\ IF stop_requested(stop_event, running)
       THEN threads' = [threads EXCEPT ![t].pc = "done"] /\ running' = FALSE
       ELSE threads' = [threads EXCEPT ![t].pc = "cycle"] /\ UNCHANGED running
    /\ UNCHANGED <<stop_event, trading_thread, main_thread>>

(* get_current_price and check_price_and_trade (lines 137-138): the cycle
   either ends without a new order or gets an order accepted. *)
TradeCycle(t) ==
    /\ threads[t].pc = "cycle"
    /\ \E placed \in BOOLEAN :
         threads' = [threads EXCEPT ![t].pc = IF placed THEN "accepted" ELSE "wait"]
    /\ UNCHANGED <<running, stop_event, trading_thread, main_thread>>

(* self.current_order_id = order.get("id") and the end of the cycle *)
RecordOrder(t) ==
    /\ threads[t].pc = "accepted"
    /\ threads' = [threads EXCEPT ![t].pc = "wait"]
    /\ UNCHANGED <<running, stop_event, trading_thread, main_thread>>

(* self._stop_event.wait(POLLING_INTERVAL) returns (line 139) *)
LoopWait(t) ==
    /\ threads[t].pc = "wait"
    /\ threads' = [threads EXCEPT ![t].pc = "test"]
    /\ UNCHANGED <<running, stop_event, trading_thread, main_thread>>

ThreadStep(t) ==
    /\ t \in DOMAIN threads /\ ~threads[t].killed
    /\ \/ LoopTest(t)
       \/ TradeCycle(t)
       \/ RecordOrder(t)
       \/ LoopWait(t)

TradingThreads == \E t \in 1 .. MaxThreads : ThreadStep(t)

---------------------------------------------------------------------------
(* The trading engine with a notifier whose send_message may let an
   exception escape: _send_payload (src/api/discord.py:105-117) catches
   requests.exceptions.RequestException and nothing else.  The notice of a
   cycle is the outcome of the send_message of lines 50 and 55: delivered,
   failed with a request error (caught, False returned), or an exception
   of another class, which reaches the except clause of line 66. *)

Notices == {"ok", "request_error", "raise"}
NotifiedPrices == {64, 70}      \* one price at which the engine buys, one at which it sells
MaxFills == 1           \* filled reports after which the sends no longer raise

(* Lines 41-67 with the notification: on "filled" in_position is assigned
   (line 49 or 54), then send_message is called (line 50 or 55), then
   current_order_id is cleared (line 51 or 56); an exception of the send
   skips the clearing and the test of line 63. *)
StatusStepNotified(ip, oid, orders, resp, notice) ==
    IF oid # None /\ resp = "filled" /\ notice = "raise"
    THEN [StatusStep(ip, oid, orders, resp) EXCEPT !.current_order_id = oid]
    ELSE StatusStep(ip, oid, orders, resp)

NoticeAnswers(status_resp) ==
    IF current_order_id # None /\ status_resp = "filled"
    THEN IF Len(filled_types) < MaxFills THEN Notices ELSE Notices \ {"raise"}
    ELSE {"none"}

NotifiedCycle ==
    \E current_price \in NotifiedPrices, status_resp \in StatusAnswers :
      \E notice \in NoticeAnswers(status_resp) :
        LET poll == StatusStepNotified(in_position, current_order_id, active_orders, status_resp, notice)
        IN  \E balance_resp \in BalanceAnswers(poll, current_price) :
              \E order_resp \in OrderAnswers(poll, current_price, balance_resp) :
                check_price_and_trade_after(poll, current_price, balance_resp, TotalAmount(balance_resp.fiat), order_resp)

---------------------------------------------------------------------------
(* run_strategy (src/buy_sell_strategy.py:41-125), one pass of its loop
   body at a time, fed the prices and the answers that the engine is fed.
   Its Trader keeps the same records and its exchange the same book as the
   engine's for as long as the two have made the same calls. *)

StrategyPrices == {64, 70}      \* one price at which the strategy buys, one at which it sells

StrategyInit ==
    strategy = [in_position |-> FALSE, current_order_id |-> None, place_calls |-> <<>>]

(* Lines 73-118: `if not in_position: ... else: ...`, the branches of the
   engine without their test of current_order_id; a place call that raises
   leaves current_order_id as it is. *)
StrategyPlacement(ip, oid, orders, xorders, current_price, balance_resp, order_resp) ==
    LET step == PlacementStepWith(ip, None, orders, xorders, current_price, balance_resp,
                                  TotalAmount(balance_resp.fiat), order_resp)
    IN  [step EXCEPT !.current_order_id =
                        IF step.attempted /\ ~step.place.raised THEN step.place.id ELSE oid]

(* The loop body, lines 42-122: the status block of lines 48-71, whose
   exception ends the pass at line 120, then the placement. *)
run_strategy_body(st, orders, xorders, current_price, status_resp, balance_resp, order_resp) ==
    LET poll == StatusStep(st.in_position, st.current_order_id, orders, status_resp)
        step == IF poll.returned \/ poll.raised
                THEN Idle(poll.current_order_id, poll.active_orders, 0, NoBalance)
                ELSE StrategyPlacement(poll.in_position, poll.current_order_id,
                                       poll.active_orders, xorders, current_price,
                                       balance_resp, order_resp)
    IN  [in_position |-> poll.in_position,
         current_order_id |-> step.current_order_id,
         place_calls |-> IF step.place.called
                         THEN <<[type |-> step.place.type, price |-> step.place.price,
                                 quantity |-> step.place.quantity]>>
                         ELSE <<>>]

(* The two have behaved alike so far. *)
Alike ==
    /\ strategy.in_position = in_position
    /\ strategy.current_order_id = current_order_id
    /\ strategy.place_calls = last.place_calls

(* The balance answers and the order answers of a cycle in which either
   of the two makes the call. *)
BalanceAnswersOfBoth(poll, current_price) ==
    IF /\ ~poll.returned /\ ~poll.raised
       /\ \/ ~poll.in_position /\ BuySignal(current_price)
          \/ poll.in_position /\ SellSignal(current_price)
    THEN BalanceResponses
    ELSE BalanceAnswers(poll, current_price)

OrderAnswersOfBoth(poll, current_price, balance_resp) ==
    IF /\ BalanceAnswersOfBoth(poll, current_price) = BalanceResponses
       /\ ~balance_resp.raised
       /\ \/ ~poll.in_position /\ EnoughToBuy(TotalAmount(balance_resp.fiat)) /\ current_price # 0
          \/ poll.in_position /\ balance_resp.crypto > 0
    THEN OrderResponses
    ELSE {"none"}

(* One cycle of the engine and one pass of the strategy on the same price
   and the same answers, as long as the two have behaved alike. *)
BothCycle ==
    /\ Alike
    /\ \E current_price \in StrategyPrices, status_resp \in StatusAnswers :
         LET poll == StatusStep(in_position, current_order_id, active_orders, status_resp)
         IN  \E balance_resp \in BalanceAnswersOfBoth(poll, current_price) :
               \E order_resp \in OrderAnswersOfBoth(poll, current_price, balance_resp) :
                 /\ check_price_and_trade(current_price, status_resp, balance_resp, order_resp)
                 /\ strategy' = run_strategy_body(strategy, active_orders, exchange_orders, current_price, status_resp, balance_resp, order_resp)

---------------------------------------------------------------------------
(* AlertSystem.start_monitoring and stop_monitoring (src/core/alerts.py:
   80-112) called in any order and in either mode, the monitor loops they
   start and the running tracker they register price_callback on. *)

MaxMonitors == 2        \* monitor loop threads that are started
MaxRegistered == 2      \* registrations of price_callback on the tracker
MonitorPrices == {600, 700}     \* below the low threshold, inside its re-arm band
MonitorFetches == {[ok |-> TRUE, price |-> q] : q \in MonitorPrices} \cup {[ok |-> FALSE, price |-> 0]}
LoopRunning == {"test", "body", "sleep"}

MonitorInit ==
    monitoring = [running |-> FALSE, callbacks |-> <<>>, current_price |-> None,
                  loops |-> [t \in 1 .. MaxMonitors |-> "none"],
                  triggered_alerts |-> {}, stopped |-> FALSE, in_progress |-> {},
                  last |-> [op |-> "none", by |-> 0, sent |-> <<>>, after_stop |-> FALSE]]

(* What a call that runs no cycle records of itself. *)
Called(op) == [op |-> op, by |-> 0, sent |-> <<>>, after_stop |-> FALSE]

(* start_monitoring(use_existing_tracker): returns at once when _running is
   set; otherwise sets it and registers price_callback or starts a thread. *)
StartMonitoring(use_existing_tracker) ==
    IF monitoring.running
    THEN monitoring' = [monitoring EXCEPT !.last = Called("start")]
    ELSE IF use_existing_tracker
         THEN /\ Len(monitoring.callbacks) < MaxRegistered
              /\ monitoring' = [monitoring EXCEPT
                                  !.running = TRUE, !.stopped = FALSE, !.in_progress = {},
                                  !.callbacks = Append(@, "price_callback"),
                                  !.last = Called("start")]
         ELSE /\ \E t \in 1 .. MaxMonitors : monitoring.loops[t] = "none"
              /\ LET t == CHOOSE u \in 1 .. MaxMonitors :
                            /\ monitoring.loops[u] = "none"
                            /\ \A v \in 1 .. u - 1 : monitoring.loops[v] # "none"
                 IN  monitoring' = [monitoring EXCEPT
                                      !.running = TRUE, !.stopped = FALSE, !.in_progress = {},
                                      !.loops[t] = "test",
                                      !.last = Called("start")]

(* stop_monitoring: clears _running and nothing else.  The monitor loops
   that have passed their test are in a cycle at that moment. *)
StopMonitoring ==
    monitoring' = [monitoring EXCEPT
                     !.running = FALSE, !.stopped = TRUE,
                     !.in_progress = {t \in 1 .. MaxMonitors : monitoring.loops[t] = "body"},
                     !.last = Called("stop")]

(* monitor_loop: `while self._running` *)
MonitorTest(t) ==
    /\ monitoring.loops[t] = "test"
    /\ monitoring' = [monitoring EXCEPT
                        !.loops[t] = IF monitoring.running THEN "body" ELSE "done",
                        !.last = Called("test")]

(* monitor_loop: get_current_price and price_callback; an exception ends
   the loop. *)
MonitorBody(t) ==
    /\ monitoring.loops[t] = "body"
    /\ \E fetch \in MonitorFetches, delivery \in Deliveries :
         LET g == get_current_price(monitoring.current_price, fetch)
             r == price_callback(PRICE_ALERT_THRESHOLDS, monitoring.triggered_alerts,
                                 g.price, delivery)
         IN  monitoring' = [monitoring EXCEPT
                              !.current_price = g.current_price,
                              !.triggered_alerts = r.triggered_alerts,
                              !.loops[t] = IF r.raised THEN "done" ELSE "sleep",
                              !.last = [op |-> "cycle", by |-> t, sent |-> r.sent,
                                        after_stop |-> monitoring.stopped
                                                       /\ t \notin monitoring.in_progress]]

(* monitor_loop: time.sleep(POLLING_INTERVAL) *)
MonitorSleep(t) ==
    /\ monitoring.loops[t] = "sleep"
    /\ monitoring' = [monitoring EXCEPT !.loops[t] = "test", !.last = Called("sleep")]

(* The callbacks of one tracker cycle when all of them are price_callback
   of the one AlertSystem: n calls in turn on the same price. *)
RECURSIVE call_price_callbacks(_, _, _, _, _)
call_price_callbacks(n, triggered_set, price, delivery, sent) ==
    IF n = 0
    THEN [triggered_alerts |-> triggered_set, sent |-> sent]
    ELSE LET r == price_callback(PRICE_ALERT_THRESHOLDS, triggered_set, price, delivery)
         IN  call_price_callbacks(n - 1, r.triggered_alerts, price, delivery, sent \o r.sent)

(* One cycle of the tracker's start_tracking loop, which runs whether or not
   the AlertSystem is monitoring: the fetch, then every registered
   callback. *)
TrackerCycle ==
    \E fetch \in MonitorFetches, delivery \in Deliveries :
        LET g == get_current_price(monitoring.current_price, fetch)
            c == call_price_callbacks(Len(monitoring.callbacks), monitoring.triggered_alerts,
                                      g.price, delivery, <<>>)
        IN  monitoring' = [monitoring EXCEPT
                             !.current_price = g.current_price,
                             !.triggered_alerts = c.triggered_alerts,
                             !.last = [op |-> "cycle", by |-> 0, sent |-> c.sent,
                                       after_stop |-> monitoring.stopped]]

MonitorThread(t) == MonitorTest(t) \/ MonitorBody(t) \/ MonitorSleep(t)

---------------------------------------------------------------------------
(* The cycles that the trading loop (auto_trader.py:132-146) comes to run
   when the exchange behaves: the loop has no exit but the stop event, so
   with a fair scheduler it runs cycle after cycle. *)

FairPrices == {0, 64, 70}       \* no price fetched yet, a buy price, a sell price

(* A cycle of the loop at one of these prices. *)
FairCycle ==
    \E current_price \in FairPrices, status_resp \in StatusAnswers :
      LET poll == StatusStep(in_position, current_order_id, active_orders, status_resp)
      IN  \E balance_resp \in BalanceAnswers(poll, current_price) :
            \E order_resp \in OrderAnswers(poll, current_price, balance_resp) :
              check_price_and_trade(current_price, status_resp, balance_resp, order_resp)

(* A cycle whose status poll succeeds and reports the pending order filled
   or cancelled. *)
TerminalPollCycle ==
    /\ current_order_id # None
    /\ \E current_price \in FairPrices, status_resp \in Terminal :
         LET poll == StatusStep(in_position, current_order_id, active_orders, status_resp)
         IN  \E balance_resp \in BalanceAnswers(poll, current_price) :
               \E order_resp \in OrderAnswers(poll, current_price, balance_resp) :
                 check_price_and_trade(current_price, status_resp, balance_resp, order_resp)

(* A cycle of the flat engine at a fetched price at or below buy_price, with
   a sufficient balance and exchange calls that succeed. *)
FundedBuyCycle ==
    /\ ~in_position /\ current_order_id = None
    /\ \E current_price \in {q \in FairPrices : q # 0 /\ BuySignal(q)} :
         \E balance_resp \in {b \in BalanceResponses : ~b.raised /\ EnoughToBuy(TotalAmount(b.fiat))} :
           \E order_resp \in OrderResponses \ {"raise"} :
             check_price_and_trade(current_price, "none", balance_resp, order_resp)

---------------------------------------------------------------------------
(* Specifications *)

Init == TradeInit /\ SizingInit /\ AlertInit /\ TrackerInit /\ RequestInit /\ TraderInit /\ PriceInit /\ TrackingInit /\ LoopInit /\ StrategyInit /\ MonitorInit

Next == Cycle /\ UNCHANGED <<sizing, alert_vars, tracker_vars, request_vars, trader_api_vars, price_vars, tracking_vars, loop_vars, strategy_vars, monitor_vars>>

Spec == Init /\ [][Next]_vars

AmountNext == AmountCycle /\ UNCHANGED <<sizing, alert_vars, tracker_vars, request_vars, trader_api_vars, price_vars, tracking_vars, loop_vars, strategy_vars, monitor_vars>>

AmountSpec == Init /\ [][AmountNext]_vars

SizingNext == SizeBuy /\ UNCHANGED <<trade_vars, alert_vars, tracker_vars, request_vars, trader_api_vars, price_vars, tracking_vars, loop_vars, strategy_vars, monitor_vars>>

SizingSpec == Init /\ [][SizingNext]_vars

AlertNext ==
    /\ \/ start_monitoring
       \/ MonitorIteration
       \/ AddThreshold
       \/ RemoveThreshold
    /\ UNCHANGED <<trade_vars, sizing, tracker_vars, request_vars, trader_api_vars, price_vars, tracking_vars, loop_vars, strategy_vars, monitor_vars>>

AlertSpec == Init /\ [][AlertNext]_vars

ModeNext ==
    /\ \/ StartBoth
       \/ Observe
    /\ UNCHANGED <<trade_vars, sizing, alert_vars, request_vars, trader_api_vars, price_vars, tracking_vars, loop_vars, strategy_vars, monitor_vars>>

ModeSpec == Init /\ [][ModeNext]_vars

HistoryNext == TrackAlone /\ UNCHANGED <<trade_vars, sizing, alert_vars, request_vars, trader_api_vars, price_vars, tracking_vars, loop_vars, strategy_vars, monitor_vars>>

HistorySpec == Init /\ [][HistoryNext]_vars


RequestNext ==
    MakeRequest /\ UNCHANGED <<trade_vars, sizing, alert_vars, tracker_vars, trader_api_vars, price_vars, tracking_vars, loop_vars, strategy_vars, monitor_vars>>

RequestSpec == Init /\ [][RequestNext]_vars


TraderNext ==
    /\ \/ PlaceBuyOrder
       \/ PlaceSellOrder
       \/ CancelOrder
       \/ GetOrderStatus
       \/ UpdateActiveOrders
    /\ UNCHANGED <<sizing, alert_vars, tracker_vars, request_vars, price_vars, tracking_vars, loop_vars, strategy_vars, monitor_vars>>

TraderSpec == Init /\ [][TraderNext]_vars


PriceNext ==
    GetCurrentPrice /\ UNCHANGED <<trade_vars, sizing, tracker_vars, request_vars, trader_api_vars, tracking_vars, loop_vars, strategy_vars, monitor_vars>>

PriceSpec == Init /\ [][PriceNext]_vars


others_of_tracking == <<trade_vars, sizing, alert_vars, request_vars, trader_api_vars, price_vars, loop_vars, strategy_vars, monitor_vars>>

CallbackNext ==
    /\ \/ TrackingLoop
       \/ RegisterCallback
    /\ UNCHANGED others_of_tracking

CallbackSpec == Init /\ [][CallbackNext]_vars

StopNext ==
    /\ \/ TrackingLoop
       \/ StopTracking
    /\ UNCHANGED others_of_tracking

StopSpec == Init /\ [][StopNext]_vars

SnapshotNext ==
    /\ \/ TrackingLoop
       \/ GetPriceHistory
    /\ UNCHANGED others_of_tracking

SnapshotSpec == Init /\ [][SnapshotNext]_vars


others_of_loop == <<trade_vars, sizing, alert_vars, tracker_vars, request_vars, trader_api_vars, price_vars, tracking_vars, strategy_vars, monitor_vars>>

LoopNext ==
    /\ \/ StartTrading
       \/ StopTrading
       \/ JoinReturns
       \/ SignalArrives
       \/ ProcessExits
       \/ TradingThreads
    /\ UNCHANGED others_of_loop

LoopSpec == Init /\ [][LoopNext]_vars

(* Every thread that can take a step takes it in the end: the scheduler is
   fair and every call of the exchange returns. *)
FairLoopSpec == LoopSpec /\ \A t \in 1 .. MaxThreads : WF_vars(ThreadStep(t) /\ UNCHANGED others_of_loop)


others_of_trade == <<sizing, alert_vars, tracker_vars, request_vars, trader_api_vars, price_vars, tracking_vars, loop_vars, strategy_vars, monitor_vars>>

NotifiedNext == NotifiedCycle /\ UNCHANGED others_of_trade

NotifiedSpec == Init /\ [][NotifiedNext]_vars


BothNext ==
    BothCycle /\ UNCHANGED <<sizing, alert_vars, tracker_vars, request_vars, trader_api_vars, price_vars, tracking_vars, loop_vars, monitor_vars>>

BothSpec == Init /\ [][BothNext]_vars


others_of_monitor == <<trade_vars, sizing, alert_vars, tracker_vars, request_vars, trader_api_vars, price_vars, tracking_vars, loop_vars, strategy_vars>>

MonitorNext ==
    /\ \/ \E use_existing_tracker \in BOOLEAN : StartMonitoring(use_existing_tracker)
       \/ StopMonitoring
       \/ \E t \in 1 .. MaxMonitors : MonitorThread(t)
       \/ TrackerCycle
    /\ UNCHANGED others_of_monitor

MonitorSpec == Init /\ [][MonitorNext]_vars


(* The trading loop keeps running cycles; a pending order is in the end
   polled with a terminal answer, and the flat engine in the end sees a buy
   price with a sufficient balance and calls that succeed. *)
FairNext == FairCycle /\ UNCHANGED others_of_trade

FairSpec ==
    /\ Init /\ [][FairNext]_vars
    /\ WF_vars(TerminalPollCycle /\ UNCHANGED others_of_trade)
    /\ WF_vars(FundedBuyCycle /\ UNCHANGED others_of_trade)


---------------------------------------------------------------------------
(* Properties of the trading engine *)

NonTerminal(orders) == {k \in DOMAIN orders : orders[k].status \notin {"filled", "cancelled"}}

(* The exchange accepted the order of the place_order call of the last cycle. *)
LastAccepted == last.place_calls # <<>> /\ ~last.place_raised

(* The record of the exchange for the order with this id. *)
ExchangeOrder(oid) ==
    exchange_orders[CHOOSE k \in DOMAIN exchange_orders : exchange_orders[k].id = oid]

(* C1: Trader.active_orders never holds two records at the same time whose
   status is outside {filled, cancelled}. *)
C1_AtMostOneNonTerminalRecord == Cardinality(NonTerminal(active_orders)) <= 1

(* A pending order next to the record of an earlier, finished one. *)
C1_Witness ==
    /\ Cardinality(NonTerminal(active_orders)) = 1
    /\ Cardinality(DOMAIN active_orders) >= 2

(* C2: place_order is never called while an order accepted earlier has not
   been reported filled or cancelled by a status poll, whatever the answers
   of the exchange are (answers without an id included). *)
C2_NoPlacementWhileUnresolved ==
    last.place_calls # <<>> =>
        \A k \in 1 .. (Len(exchange_orders) - (IF LastAccepted THEN 1 ELSE 0)) :
            exchange_orders[k].reported \in {"filled", "cancelled"}

(* C3 as stated: when get_balance or place_order raises, in_position,
   current_order_id and active_orders are after the cycle what they were
   before the cycle, and the cycle made at most one placement attempt. *)
C3_Original ==
    [][(last'.balance.raised \/ last'.place_raised) =>
          /\ in_position' = in_position
          /\ current_order_id' = current_order_id
          /\ active_orders' = active_orders
          /\ Len(last'.place_calls) <= 1]_vars

(* C3 amended: when get_balance or place_order raises, in_position,
   current_order_id and active_orders are after the cycle what they were
   right before the failing call, that is after the status poll of the same
   cycle, and the cycle made at most one placement attempt. *)
C3_PreCallStatePreserved ==
    (last.balance.raised \/ last.place_raised) =>
        /\ in_position = last.mid_in_position
        /\ current_order_id = last.mid_order_id
        /\ active_orders = last.mid_active_orders
        /\ Len(last.place_calls) <= 1

(* The exchange refuses an order after the poll of the same cycle reported
   the pending order filled. *)
C3_Witness ==
    /\ last.place_raised /\ last.place_calls # <<>>
    /\ last.status = "filled"

(* C4: in_position is true exactly when the order most recently reported
   filled was a buy; it is false initially and after every filled sell. *)
C4_InPositionIffLastFilledIsBuy == in_position <=> (last_filled_type = "buy")

(* A sell has just been reported filled. *)
C4_Witness == last_filled_type = "sell" /\ last.status = "filled" /\ ~in_position

(* The cycle of C5: it starts flat with no pending id, sees a price at or
   below the buy price and a sufficient fiat balance, and no call to the
   exchange fails: get_balance returns and place_order, when called,
   returns an id. *)
C5_Case ==
    /\ last.cycled
    /\ ~last.pre_in_position /\ last.pre_order_id = None
    /\ last.price <= 65
    /\ last.balance_calls = 1 /\ ~last.balance.raised
    /\ Min(last.balance.fiat * 95, 100000) > 1000
    /\ last.place_calls # <<>> => (~last.place_raised /\ last.place_id # None)

(* What C5 says of that cycle: exactly one limit buy at current_price, one
   new record, current_order_id the returned id, in_position still false. *)
C5_Outcome ==
    /\ Len(last.place_calls) = 1
    /\ last.place_calls[1].type = "buy"
    /\ last.place_calls[1].price = last.price
    /\ last.place_id \notin DOMAIN last.mid_active_orders
    /\ DOMAIN active_orders = DOMAIN last.mid_active_orders \cup {last.place_id}
    /\ \A k \in DOMAIN last.mid_active_orders : active_orders[k] = last.mid_active_orders[k]
    /\ active_orders[last.place_id].type = "buy"
    /\ active_orders[last.place_id].price = last.price
    /\ active_orders[last.place_id].status = "placed"
    /\ current_order_id = last.place_id
    /\ current_order_id # None
    /\ ~in_position

(* C5 as stated, for every current_price <= buy_price. *)
C5_Original == C5_Case => C5_Outcome

(* C5 amended: the same for 0 < current_price <= buy_price. *)
C5_BuyPlacedFromFlat == (C5_Case /\ last.price > 0) => C5_Outcome

(* A buy placed from FLAT at a price below the buy price. *)
C5_Witness == C5_Case /\ last.price = 64 /\ current_order_id # None

(* C6: when the poll of the pending order returns filled, the id of that
   order is cleared and in_position becomes true for a buy, false for a
   sell. *)
C6_FilledClearsIdAndSetsPosition ==
    (last.polled /\ last.status = "filled") =>
        /\ last.mid_order_id = None
        /\ current_order_id # last.pre_order_id
        /\ last.mid_in_position = (active_orders[last.pre_order_id].type = "buy")
        /\ in_position = (active_orders[last.pre_order_id].type = "buy")

(* A buy has just been reported filled. *)
C6_Witness ==
    /\ last.polled /\ last.status = "filled" /\ in_position
    /\ active_orders[last.pre_order_id].type = "buy"

(* C7: when the poll of the pending order returns cancelled, the id is
   cleared and in_position has the value it had before the order was
   placed. *)
C7_CancelledRestoresState ==
    (last.polled /\ last.status = "cancelled") =>
        /\ last.mid_order_id = None
        /\ current_order_id # last.pre_order_id
        /\ last.mid_in_position = ExchangeOrder(last.pre_order_id).in_position_before
        /\ in_position = ExchangeOrder(last.pre_order_id).in_position_before

(* A sell has just been reported cancelled: the engine is LONG again. *)
C7_Witness ==
    /\ last.polled /\ last.status = "cancelled" /\ in_position
    /\ active_orders[last.pre_order_id].type = "sell"
    /\ current_order_id = None

(* C8: when the poll of the pending order returns open or
   partially_filled, the cycle changes neither in_position nor
   current_order_id and calls neither get_balance nor place_order. *)
C8_OpenOrderFreezesCycle ==
    (last.polled /\ last.status \in {"open", "partially_filled"}) =>
        /\ in_position = last.pre_in_position
        /\ current_order_id = last.pre_order_id
        /\ last.balance_calls = 0
        /\ ~last.attempted
        /\ last.place_calls = <<>>

(* A partially filled sell while the price is at the buy threshold. *)
C8_Witness ==
    /\ last.polled /\ last.status = "partially_filled"
    /\ in_position /\ last.price = 65

(* C9: LONG with no pending order and current_price >= sell_price: with
   available crypto > 0 the cycle places exactly one limit sell at
   current_price for the full quantity and sets current_order_id; with
   available crypto 0 it places nothing and stays LONG.  Stated for the
   cycles in which neither get_balance nor place_order raises. *)
C9_SellPlacedFromLong ==
    (/\ last.cycled /\ ~last.returned
     /\ last.mid_in_position /\ last.mid_order_id = None
     /\ last.price >= 70
     /\ last.balance_calls = 1 /\ ~last.balance.raised
     /\ ~last.place_raised) =>
        IF last.balance.crypto > 0
        THEN /\ last.place_calls =
                    <<[type |-> "sell", price |-> last.price,
                       quantity |-> [whole |-> last.balance.crypto, frac |-> 0]]>>
             /\ current_order_id # None
             /\ in_position
        ELSE /\ last.place_calls = <<>>
             /\ current_order_id = None
             /\ in_position

(* C10: a buy is placed only while in_position is false and
   current_price <= buy_price, a sell only while in_position is true and
   current_price >= sell_price, and the limit price is current_price. *)
C10_OrdersFollowSignals ==
    \A i \in DOMAIN last.place_calls :
        LET c == last.place_calls[i]
        IN  /\ c.price = last.price
            /\ c.type \in {"buy", "sell"}
            /\ c.type = "buy" => (~last.mid_in_position /\ last.price <= 65)
            /\ c.type = "sell" => (last.mid_in_position /\ last.price >= 70)

(* A sell placed above the sell price. *)
C10_Witness ==
    /\ last.place_calls # <<>>
    /\ last.place_calls[1].type = "sell"
    /\ last.price = 71

(* C11: in a cycle that reaches the buy branch flat and with no pending
   order, at current_price <= buy_price, and computes a spend
   min(available_fiat * 0.95, 1000) of at most 10 (10 itself included), no
   order is submitted, no order record is created and the engine stays flat
   with no pending order. *)
C11_Case ==
    /\ last.cycled /\ ~last.returned
    /\ ~last.mid_in_position /\ last.mid_order_id = None
    /\ last.price <= BUY_PRICE
    /\ last.balance_calls = 1 /\ ~last.balance.raised
    /\ last.total_amount <= MIN_ORDER * 100

C11_InsufficientSpendPlacesNothing ==
    C11_Case =>
        /\ ~last.attempted /\ last.place_calls = <<>>
        /\ active_orders = last.mid_active_orders
        /\ ~in_position /\ current_order_id = None

C11_Witness ==
    /\ C11_Case /\ last.total_amount = MIN_ORDER * 100
    /\ Len(exchange_orders) > 0 /\ ~last.attempted

(* total_amount / price (both in hundredths) cut to 8 decimal places, in
   exact arithmetic. *)
Truncate8(total_amount, price) ==
    LET r0 == total_amount % price
        r1 == (r0 * 10000) % price
    IN  [whole |-> total_amount \div price,
         frac |-> ((r0 * 10000) \div price) * 10000 + (r1 * 10000) \div price]

(* quantity * price <= total_amount, with price and total_amount in
   hundredths *)
CostWithin(quantity, price, total_amount) ==
    LET rem == total_amount - quantity.whole * price
        f1 == quantity.frac \div 10000
        f2 == quantity.frac % 10000
    IN  /\ rem >= 0
        /\ f1 * price + (f2 * price + 9999) \div 10000 <= rem * 10000

(* C12: for every fiat balance and every price > 0, the quantity of the buy
   order submitted equals min(available_fiat * 0.95, 1000) / price cut to 8
   decimal places, and quantity * price does not exceed the spend. *)
C12_QuantityIsTruncation ==
    sizing.submitted =>
        /\ sizing.quantity = Truncate8(TotalAmount(sizing.available_fiat), sizing.price)
        /\ CostWithin(sizing.quantity, sizing.price, sizing.total_amount)

(* C13: a cycle whose status poll raises leaves in_position and
   current_order_id as they were, asks for no balance and submits no order,
   and the next cycle polls the same order id. *)
C13_Case == last.cycled /\ last.polled /\ last.poll_raised

C13_PollErrorKeepsOrder ==
    /\ [](C13_Case =>
            /\ in_position = last.pre_in_position
            /\ current_order_id = last.pre_order_id
            /\ current_order_id # None
            /\ active_orders = last.mid_active_orders
            /\ last.balance_calls = 0
            /\ ~last.attempted /\ last.place_calls = <<>>)
    /\ [][C13_Case => (last'.polled /\ last'.pre_order_id = last.pre_order_id)]_vars

C13_Witness ==
    /\ C13_Case
    /\ ~last.pre_in_position /\ last.price <= BUY_PRICE
    /\ current_order_id = last.pre_order_id

(* C14: the orders reported filled to the engine alternate buy, sell, buy,
   ... starting with a buy, and a sell is submitted only after a buy has
   been reported filled (the last report before it being a buy). *)
Alternates(types) ==
    \A i \in 1 .. Len(types) : types[i] = IF i % 2 = 1 THEN "buy" ELSE "sell"

C14_FillsAlternate ==
    /\ Alternates(filled_types)
    /\ (last.place_calls # <<>> /\ last.place_calls[1].type = "sell") =>
            /\ filled_types # <<>>
            /\ filled_types[Len(filled_types)] = "buy"

C14_Witness ==
    /\ filled_types = <<"buy", "sell", "buy">>
    /\ last.status = "filled"

(* C15: whatever prices check_alerts is fed, an alert id that triggers had
   either never triggered before or has seen a price inside its re-arm band
   since its last trigger; and the prices 0.70, 0.72, 0.715, 0.72 fed to the
   configured thresholds trigger high 0.71 exactly once. *)
C15_RearmBetweenTriggers ==
    /\ [][alert_last'.op = "check" =>
            \A a \in IdsOf(alert_last'.triggered) : since[a] \in {"never", "band"}]_vars
    /\ [](example_run.pos = Len(EXAMPLE_PRICES) => example_run.triggers = 1)

C15_Witness ==
    /\ alert_last.op = "check"
    /\ \E a \in IdsOf(alert_last.triggered) : since[a] = "again"

(* C16: an entry leaves triggered_alerts only in a check_alerts call whose
   price is inside the re-arm band of the entry; no other price and no
   other operation removes one. *)
C16_RemovedOnlyByHysteresis ==
    [][\A a \in triggered_alerts \ triggered_alerts' :
          alert_last'.op = "check" /\ InRearmBand(a, alert_last'.price)]_vars

C16_Witness ==
    /\ alert_last.op = "check"
    /\ \E a \in triggered_alerts \cap Configured(thresholds) :
          /\ a[1] = "high" /\ alert_last.price < a[2]
          /\ ~InRearmBand(a, alert_last.price)

(* C17: add_threshold and remove_threshold change the threshold mapping
   only, triggered_alerts in particular stays as it is; an alert id removed
   while triggered and added again does not trigger before a price inside
   its re-arm band was seen. *)
C17_ConfiguringKeepsTriggered ==
    /\ [][alert_last'.op \in {"add", "remove"} =>
            /\ triggered_alerts' = triggered_alerts
            /\ alert_running' = alert_running /\ monitor' = monitor
            /\ tracker_price' = tracker_price]_vars
    /\ [][alert_last'.op = "check" =>
            \A a \in IdsOf(alert_last'.triggered) : parked[a] # "readded"]_vars

C17_Witness ==
    /\ alert_last.op = "check" /\ alert_last.triggered = <<>>
    /\ \E a \in triggered_alerts \cap Configured(thresholds) :
          /\ parked[a] = "readded"
          /\ a[1] = "high" /\ alert_last.price >= a[2]

(* C19: when the notification of a triggered alert is not delivered, the
   alert is marked in triggered_alerts all the same and stays marked, the
   monitor loop goes on, and the alert is notified again only after it was
   re-armed by a price inside its band and triggered anew. *)
C19_FailedDeliveryStaysMarked ==
    /\ [](alert_last.op = "check" =>
            \A i \in 1 .. Len(alert_last.sent) :
                ~alert_last.sent[i].delivered =>
                    /\ AlertId(alert_last.sent[i].type, alert_last.sent[i].threshold)
                            \in triggered_alerts
                    /\ ~alert_last.raised /\ monitor = "running" /\ alert_running)
    /\ [](\A a \in AllAlertIds :
            (delivery_of[a] = "failed" /\ since[a] \in {"clean", "again"})
                => a \in triggered_alerts)
    /\ [][alert_last'.op = "check" =>
            \A a \in IdsOf(alert_last'.sent) :
                delivery_of[a] = "failed" =>
                    /\ a \notin triggered_alerts /\ since[a] = "band"
                    /\ a \in IdsOf(alert_last'.triggered)]_vars

C19_Witness ==
    /\ alert_last.op = "check" /\ alert_last.sent = <<>>
    /\ monitor = "running"
    /\ \E a \in triggered_alerts \cap Configured(thresholds) :
          /\ delivery_of[a] = "failed"
          /\ a[1] = "high" /\ alert_last.price >= a[2]

(* C18: fed the same fetches under the same thresholds, the AlertSystem
   registered as a tracker callback and the AlertSystem with its own
   monitor loop have sent the same sequence of notifications and hold the
   same triggered_alerts. *)
C18_ModesAgree ==
    /\ cb_alerts.notified = loop_alerts.notified
    /\ cb_alerts.triggered_alerts = loop_alerts.triggered_alerts

C18_Witness ==
    /\ clock = MaxCycles
    /\ Len(cb_alerts.notified) >= 3
    /\ cb_alerts.triggered_alerts = {AlertId("high", 710)}

(* C20: price_history never holds more than 1000 samples and is always the
   run of the most recent samples appended, in the order of insertion;
   after 1001 appends the first sample is gone and the 1001st is last. *)
C20_HistoryIsRecentWindow ==
    LET n == Len(appended)
        k == Len(tracker.price_history)
    IN  /\ k <= MAX_HISTORY
        /\ k = Min(n, MAX_HISTORY)
        /\ tracker.price_history = SubSeq(appended, n - k + 1, n)
        /\ n = MAX_HISTORY + 1 =>
              /\ \A i \in 1 .. k : tracker.price_history[i] # appended[1]
              /\ tracker.price_history[k] = appended[n]

C20_Witness ==
    /\ Len(appended) = MAX_HISTORY + 1
    /\ Len(tracker.price_history) = MAX_HISTORY
    /\ tracker.price_history[1] = appended[2]

---------------------------------------------------------------------------
(* Properties of the exchange client *)

(* The first attempt of the call that got an "ok" response, MAX_RETRIES + 1
   when none did. *)
FirstOk(outcomes) ==
    IF \E i \in 1 .. MAX_RETRIES : outcomes[i] = "ok"
    THEN CHOOSE i \in 1 .. MAX_RETRIES :
            outcomes[i] = "ok" /\ \A j \in 1 .. i - 1 : outcomes[j] # "ok"
    ELSE MAX_RETRIES + 1

(* C25: a call of _make_request makes at most MAX_RETRIES attempts; it
   returns at the first attempt that succeeds, having slept once after each
   failed attempt before it and not otherwise; when MAX_RETRIES attempts in
   a row fail with a transient error it raises after the last of them
   without sleeping again. *)
C25_BoundedRetries ==
    (request.called /\ request.method \in {"get", "post"}) =>
        /\ request.attempts <= MAX_RETRIES
        /\ request.attempts = Min(FirstOk(request.outcomes), MAX_RETRIES)
        /\ request.result = IF FirstOk(request.outcomes) <= MAX_RETRIES
                            THEN "ok" ELSE "raise"
        /\ request.sleeps = [i \in 1 .. request.attempts - 1 |-> i]
        /\ (\A i \in 1 .. MAX_RETRIES : request.outcomes[i] \in Transient) =>
              /\ request.result = "raise" /\ request.attempts = MAX_RETRIES
              /\ request.error = request.outcomes[MAX_RETRIES]

C25_Witness ==
    /\ request.called /\ request.method = "post"
    /\ request.outcomes = <<"network", "server_error", "ok">>
    /\ request.result = "ok" /\ request.attempts = 3 /\ request.sleeps = <<1, 2>>

(* C26: a call whose first attempt is answered with an authentication
   error raises after that one attempt. *)
C26_AuthErrorNotRetried ==
    (request.called /\ request.method \in {"get", "post"}
        /\ request.outcomes[1] = "auth") =>
        /\ request.result = "raise" /\ request.error = "auth"
        /\ request.attempts = 1 /\ request.sleeps = <<>>

---------------------------------------------------------------------------
(* Properties of the order records *)

(* C27: a record appears in active_orders only in a placement that the
   exchange answered with an id, no record ever disappears, and the status
   of a record changes only in a call that polled the status of that very
   order. *)
C27_RecordLifecycle ==
    [][ /\ DOMAIN active_orders \subseteq DOMAIN active_orders'
        /\ \A k \in DOMAIN active_orders' \ DOMAIN active_orders :
              /\ trader_last'.op \in {"place_buy_order", "place_sell_order"}
              /\ trader_last'.order_id = k
              /\ active_orders'[k].status = "placed"
        /\ \A k \in DOMAIN active_orders :
              active_orders'[k].status # active_orders[k].status =>
                  /\ trader_last'.op \in {"get_order_status", "update_active_orders"}
                  /\ k \in trader_last'.polled ]_vars

---------------------------------------------------------------------------
(* Properties of the price tracker *)

(* C21: a call of get_current_price does not raise; when its fetch fails
   it returns the price of the last fetch that succeeded, 0 when none did,
   and leaves the cached price as it was, so that a failing call that
   follows a failing call returns what that one returned. *)
C21_FailedFetchReturnsCache ==
    [][ /\ ~price_call'.raised
        /\ ~price_call'.ok =>
              /\ price_call'.price = last_fetched
              /\ tracker_price' = tracker_price
              /\ (price_call.called /\ ~price_call.ok) =>
                    price_call'.price = price_call.price ]_vars

C21_Witness ==
    /\ price_call.called /\ ~price_call.ok /\ ~price_call.raised
    /\ price_call.price = 715 /\ tracker_price = 715 /\ price_call.tick = 0

(* C22: a cycle of start_tracking calls every registration of the tracker
   once, in the order of registration, each with the price the cycle
   fetched and stored; whichever of the calls raise, the cycle goes on to
   its sleep and the loop stays on. *)
C22_CallbacksOncePerCycle ==
    [][ (tracking.pc = "body" /\ clock' = clock + 1) =>
          /\ Len(callback_log'.calls) = Len(tracker.callbacks)
          /\ \A i \in 1 .. Len(tracker.callbacks) :
                /\ callback_log'.calls[i].callback = tracker.callbacks[i]
                /\ callback_log'.calls[i].price =
                      tracker'.price_history[Len(tracker'.price_history)].price
          /\ tracking'.pc = "sleep" /\ tracking'.running = tracking.running ]_vars

C22_Witness ==
    /\ tracking.pc = "sleep" /\ callback_log.earlier_raise
    /\ Len(callback_log.calls) = 2
    /\ callback_log.calls[1].raised /\ ~callback_log.calls[2].raised
    /\ callback_log.calls[1].callback = "price_callback"
    /\ callback_log.calls[2].callback = "on_price"
    /\ callback_log.calls[2].price = 715

(* C23: once stop_tracking has been called, the loop of start_tracking
   starts no further cycle: a cycle that passes the test of the loop does
   so before the call. *)
C23_NoCycleStartsAfterStop ==
    tracking.stop_called => tracking.started_after_stop = 0

(* C24: what get_price_history returned reads the same at any later time
   as at the time of the call. *)
C24_ReturnedHistoryIsSnapshot ==
    snapshot.taken => Returned(snapshot, tracker.price_history) = snapshot.at_call

---------------------------------------------------------------------------
(* Properties of the trading loop *)

(* C28: a thread enters a cycle only from the test of its loop, and only
   when the test found the stop event clear: one test per cycle.  While
   the stop event stays set no thread enters a cycle, so the only calls of
   the exchange left are those of cycles already in progress, and as long
   as start_trading does not clear the event every thread comes to its
   end. *)
C28_StopEndsTheLoop ==
    /\ [][ \A t \in DOMAIN threads :
             (threads'[t].pc = "cycle" /\ threads[t].pc # "cycle") =>
                 threads[t].pc = "test" /\ ~stop_event ]_vars
    /\ stop_event ~> (~stop_event \/ \A t \in DOMAIN threads : ~Alive(threads[t]))

C28_Witness ==
    /\ stop_event /\ main_thread = "idle" /\ ~running
    /\ Len(threads) = 1 /\ threads[1].pc = "done" /\ ~threads[1].killed

(* C29: when the process has exited on a signal, no trading-loop thread
   was stopped inside a cycle. *)
C29_ExitWaitsForTheCycle ==
    main_thread = "exited" =>
        \A t \in DOMAIN threads :
            threads[t].killed => threads[t].pc \notin {"cycle", "accepted"}

(* C30: at most one trading-loop thread is inside a cycle. *)
C30_OneLoopThreadInCycles ==
    Cardinality({t \in DOMAIN threads : InCycle(threads[t])}) <= 1

---------------------------------------------------------------------------
(* Properties of the engine and its notifier *)

(* C31: after a cycle whose poll reported the pending order filled, the
   engine is either as it was before the cycle or fully transitioned:
   in_position toggled and the id of the filled order cleared. *)
C31_FilledHandledAtomically ==
    (last.cycled /\ last.polled /\ last.status = "filled") =>
        \/ /\ last.mid_in_position = last.pre_in_position
           /\ last.mid_order_id = last.pre_order_id
        \/ /\ last.mid_in_position # last.pre_in_position
           /\ last.mid_order_id = None

(* C32: between cycles, a pending order id names a record of
   active_orders; the record is a buy when the engine is not in position
   and a sell when it is; every other record is filled or cancelled. *)
C32_PendingIdNamesTheOpenRecord ==
    current_order_id # None =>
        /\ current_order_id \in DOMAIN active_orders
        /\ active_orders[current_order_id].type = "buy" <=> ~in_position
        /\ active_orders[current_order_id].type = "sell" <=> in_position
        /\ \A k \in DOMAIN active_orders \ {current_order_id} :
              active_orders[k].status \in {"filled", "cancelled"}

C32_Witness ==
    /\ current_order_id # None /\ in_position
    /\ active_orders[current_order_id].type = "sell"
    /\ active_orders[current_order_id].status = "open"
    /\ \E k \in DOMAIN active_orders :
          active_orders[k].type = "buy" /\ active_orders[k].status = "filled"

(* C33: a cycle makes at most one place_order call and the exchange
   accepts at most one order in it, also when the poll of that cycle
   reported the pending order filled or cancelled and the price calls for
   the next order. *)
C33_OnePlacementPerCycle ==
    [][ /\ Len(last'.place_calls) <= 1
        /\ Len(exchange_orders') <= Len(exchange_orders) + 1
        /\ Len(exchange_orders') > Len(exchange_orders) => last'.place_calls # <<>> ]_vars

C33_Witness ==
    /\ last.cycled /\ last.polled /\ last.status = "filled" /\ last.pre_order_id # None
    /\ Len(last.place_calls) = 1 /\ last.place_calls[1].type = "sell"
    /\ Len(exchange_orders) = 2

(* C34: fed the same prices and the same answers, run_strategy and the
   engine have the same in_position and the same current_order_id after
   every cycle, and have made the same place calls in it. *)
C34_StrategyMatchesEngine == Alike

(* C35: the engine starts flat with no order anywhere, and a cycle at
   price 0 (what get_current_price returns while no fetch has succeeded)
   taken in that state submits nothing to the exchange and leaves the
   engine flat with no pending order id, whatever the balance. *)
C35_NoOrderAtPriceZero ==
    /\ ~in_position /\ current_order_id = None /\ exchange_orders = <<>>
    /\ [][ (/\ ~in_position /\ current_order_id = None /\ exchange_orders = <<>>
            /\ last'.price = 0) =>
              /\ ~in_position' /\ current_order_id' = None
              /\ exchange_orders' = <<>> /\ active_orders' = <<>>
              /\ last'.place_calls = <<>> ]_vars

C35_Witness ==
    /\ last.cycled /\ last.price = 0 /\ last.balance_calls = 1
    /\ ~last.balance.raised /\ last.balance.fiat >= 1000
    /\ last.attempted /\ last.place_raised
    /\ ~in_position /\ current_order_id = None /\ exchange_orders = <<>>

(* C36: an alert is triggered only for a price that a successful ticker
   fetch of the same cycle returned: a monitor cycle whose fetch failed
   triggers no alert. *)
C36_AlertsOnlyOnFetchedPrices ==
    (alert_last.op = "check" /\ ~alert_last.fetched) => alert_last.triggered = <<>>

(* C37: a cycle that began after stop_monitoring returned (and before any
   new start) sends no alert notification, in either mode; price_callback
   is registered on the tracker at most once; at most one monitor loop is
   running. *)
C37_StopSilencesAndStartsAreSingle ==
    /\ (monitoring.last.op = "cycle" /\ monitoring.last.after_stop) => monitoring.last.sent = <<>>
    /\ Len(monitoring.callbacks) <= 1
    /\ Cardinality({t \in 1 .. MaxMonitors : monitoring.loops[t] \in LoopRunning}) <= 1

(* C38: under the fair trading loop every pending order id is cleared in
   the end, and the flat engine with no pending order places another buy
   order in the end (as long as the exchange's book has room for it). *)
C38_PendingClearedAndBuyPlaced ==
    /\ \A o \in 1 .. MaxOrders : (current_order_id = o) ~> (current_order_id # o)
    /\ \A n \in 0 .. MaxOrders - 1 :
         (~in_position /\ current_order_id = None /\ Len(exchange_orders) = n)
            ~> (Len(exchange_orders) > n /\ exchange_orders[n + 1].type = "buy")

C38_Witness ==
    /\ last.cycled /\ last.pre_order_id # None /\ ~last.pre_in_position
    /\ last.status = "cancelled" /\ last.mid_order_id = None
    /\ last.place_calls # <<>> /\ last.place_calls[1].type = "buy" /\ ~last.place_raised
    /\ current_order_id # None /\ current_order_id # last.pre_order_id

====
